---------------------------- MODULE Spec2Model ----------------------------
(***************************************************************************)
(* Model of the SoundCloud downloader extension:                           *)
(*   - the operation state store (globalOperations / globalListeners,      *)
(*     subscribeToOperation, updateOperationState);                        *)
(*   - the download supervisor (handleDownload, executeBackgroundDownload  *)
(*     and the handlers it registers on the child process and the timer);  *)
(*   - the argument vector construction and validateCommandArgs;           *)
(*   - ProcessManager (utils/performance.ts) and RateLimiter               *)
(*     (utils/security.ts).                                                *)
(*                                                                         *)
(* The specifications share the variables:                                 *)
(*   SpecStore   the store driven through its API by arbitrary callers;    *)
(*   SpecMerge   the store driven by update calls with any partial update; *)
(*   Spec        the supervisor driving the store;                         *)
(*   SpecFrame   the supervisor of one operation beside store calls;       *)
(*   SpecArgs    one request, its argument vector and its final check;     *)
(*   SpecChunks  the child's stdout stream cut into chunks;                *)
(*   SpecValidate, SpecSanitize, SpecUrl, SpecPath, SpecParse, SpecLine,   *)
(*   SpecVector  one call of a function of utils/security.ts, of the       *)
(*               progress parser, of the stdout loop body or of the        *)
(*               argument construction, on each of a set of arguments;     *)
(*   SpecHandles the store with the handles subscribeToOperation returned; *)
(*   SpecProcesses  one ProcessManager and the promises it was given;      *)
(*   SpecRate    one RateLimiter as time passes.                           *)
(***************************************************************************)
EXTENDS Integers, Sequences, FiniteSets, TLC

VARIABLES
    globalOperations,   \* Map<string, OperationState>: a function on the ids that have a state
    globalListeners,    \* Map<string, Set<callback>>: a function on the ids that have an entry
    delivered,          \* observer: per id and callback, the states updates handed it since its latest subscribe
    snapshot,           \* observer: per id and callback, what the latest subscribe call itself handed it
    subAt,              \* observer: per id and callback, the number of updates applied when it last subscribed (-1: never)
    applied,            \* observer: per id, the partial updates applied through the store API, in call order
    argPhase,           \* SpecArgs: how far the request has come
    argReq,             \* SpecArgs: the request (url, settings)
    argIn,              \* SpecArgs: what handleDownload passes on (sanitizedUrl, safePath, isPlaylist)
    argv,               \* SpecArgs: the argument vector executeBackgroundDownload built
    argCheck,           \* SpecArgs: validateCommandArgs' result for argv
    argResult,          \* SpecArgs, observer: how handleDownload ended for its caller
    sup,                \* per operation id: the supervisor's closure (pc, settings read, child, timer, locals)
    now,                \* Date.now(), in seconds
    obs,                \* observer: per operation id, what its handlers did (dispatcher calls, clearInterval calls, ...)
    stdoutStream,       \* SpecChunks: all the child writes to stdout
    stdoutRead,         \* SpecChunks: how much of it the 'data' events have delivered
    parsedLines,        \* SpecChunks, observer: the lines handed to parseProgress, in order
    callPhase,          \* the specifications of one function call: "idle", "input", then how far the calls came
    callIn,             \* the argument of the call
    callOut,            \* what the calls returned, in order
    processes,          \* SpecProcesses: ProcessManager's Map<string, any>, a function on the ids it tracks
    procs,              \* SpecProcesses, observer: per process, the id it was added under, when, and what became of it
    requests,           \* SpecRate: RateLimiter's requests, the timestamps it holds
    clock,              \* SpecRate: Date.now(), in milliseconds
    granted             \* SpecRate, observer: the timestamps of the calls that returned true

storeVars == <<globalOperations, globalListeners, delivered, snapshot, subAt, applied>>

argVars == <<argPhase, argReq, argIn, argv, argCheck, argResult>>

supVars == <<sup, now, obs>>

chunkVars == <<stdoutStream, stdoutRead, parsedLines>>

callVars == <<callPhase, callIn, callOut>>

utilVars == <<processes, procs, requests, clock, granted>>

vars == <<globalOperations, globalListeners, delivered, snapshot, subAt, applied,
          argPhase, argReq, argIn, argv, argCheck, argResult, sup, now, obs,
          stdoutStream, stdoutRead, parsedLines, callPhase, callIn, callOut,
          processes, procs, requests, clock, granted>>

-----------------------------------------------------------------------------
(* Values *)

OpIds == {"opA", "opB"}

Callbacks == {"cb1", "cb2"}

\* null
Null == <<>>

Fields == {"isActive", "progress", "trackInfo", "error", "isCompleted", "downloadedFiles"}

\* progress: {} of DownloadProgress; an absent field is Null
EmptyProgress ==
    [percentage |-> Null, speed |-> Null, eta |-> Null, total |-> Null,
     currentTrack |-> Null, totalTracks |-> Null, trackTitle |-> Null,
     elapsedTime |-> Null]

\* The zero-value state updateOperationState merges onto when the id has none.
DefaultState ==
    [isActive |-> FALSE, progress |-> EmptyProgress, trackInfo |-> Null,
     error |-> Null, isCompleted |-> FALSE, downloadedFiles |-> <<>>]

-----------------------------------------------------------------------------
(* The store *)

\* globalOperations.get(operationId) || { ...zero values }
StateOf(ops, id) == IF id \in DOMAIN ops THEN ops[id] ELSE DefaultState

MergeOntoDefault(s, u) ==
    [k \in Fields |-> IF k \in DOMAIN u THEN u[k] ELSE DefaultState[k]]

\* { ...currentState, ...updates }: a shallow merge, the update's keys win
Merge(s, u) == [k \in Fields |-> IF k \in DOMAIN u THEN u[k] ELSE s[k]]

SetOperationAlone(ops, id, st) == (id :> st)

\* globalOperations.set(operationId, newState)
SetOperation(ops, id, st) ==
    [x \in (DOMAIN ops) \cup {id} |-> IF x = id THEN st ELSE ops[x]]

\* The callbacks registered for id
ListenersOf(ls, id) == IF id \in DOMAIN ls THEN ls[id] ELSE {}

NotifyNobody(dl, ls, id, st) == dl

NotifyEveryId(dl, ls, id, st) ==
    [x \in OpIds |->
        [cb \in Callbacks |->
            IF cb \in ListenersOf(ls, x) THEN Append(dl[x][cb], st) ELSE dl[x][cb]]]

\* listeners.forEach(callback => callback(newState))
NotifyListeners(dl, ls, id, st) ==
    [dl EXCEPT ![id] =
        [cb \in Callbacks |->
            IF cb \in ListenersOf(ls, id) THEN Append(@[cb], st) ELSE @[cb]]]

\* updateOperationState on the pair w = [ops, dl] of the state map and the
\* observers' logs; ls is globalListeners, which it only reads.
UpdateOperationState(w, ls, id, updates) ==
    LET newState == Merge(StateOf(w.ops, id), updates)
    IN  [ops |-> SetOperation(w.ops, id, newState),
         dl  |-> NotifyListeners(w.dl, ls, id, newState)]

\* globalListeners after subscribeToOperation's has/set/add
AddListener(ls, id, cb) ==
    [x \in (DOMAIN ls) \cup {id} |->
        IF x = id THEN ListenersOf(ls, id) \cup {cb} ELSE ls[x]]

SnapshotNever(ops, id) == <<>>

\* What subscribeToOperation hands the callback itself: the current state if
\* the id has one.
SnapshotFor(ops, id) == IF id \in DOMAIN ops THEN <<ops[id]>> ELSE <<>>

RemoveListenerKeepsEntry(ls, id, cb) ==
    IF id \notin DOMAIN ls THEN ls ELSE [ls EXCEPT ![id] = @ \ {cb}]

\* globalListeners after the unsubscribe function subscribeToOperation returned
RemoveListener(ls, id, cb) ==
    IF id \notin DOMAIN ls THEN ls
    ELSE IF ls[id] \ {cb} = {}
         THEN [x \in (DOMAIN ls) \ {id} |-> ls[x]]
         ELSE [ls EXCEPT ![id] = @ \ {cb}]

\* Both maps empty (module load), no callback ever called
InitStoreVars ==
    /\ globalOperations = <<>>
    /\ globalListeners = <<>>
    /\ delivered = [id \in OpIds |-> [cb \in Callbacks |-> <<>>]]
    /\ snapshot = [id \in OpIds |-> [cb \in Callbacks |-> <<>>]]
    /\ subAt = [id \in OpIds |-> [cb \in Callbacks |-> -1]]
    /\ applied = [id \in OpIds |-> <<>>]

-----------------------------------------------------------------------------
(* Strings.  A string is a sequence of pieces: each of the characters below *)
(* that the code inspects is a piece of its own, and a run of other         *)
(* characters is one piece.  "abc$(x)" is <<"abc", "$", "(", "x", ")">>.    *)

ControlChars == {"\t", "\n", "\r"}

WhiteSpace == {" ", "\t", "\n", "\r"}

\* The piece that stands for the backquote character
Backtick == "BACKQUOTE"

\* The piece that stands for a run of 2000 ordinary characters
Run2000 == "RUN-OF-2000"

\* s.length
RECURSIVE StrLen(_)
StrLen(s) ==
    LET \* The number of characters of a piece
        PieceLen(p) == IF p = Backtick THEN 1 ELSE IF p = Run2000 THEN 2000 ELSE Len(p)
    IN  IF s = <<>> THEN 0 ELSE PieceLen(Head(s)) + StrLen(Tail(s))

\* s.includes(t) for a string t of pieces
Includes(s, t) ==
    \E i \in 0..(Len(s) - Len(t)) : \A j \in 1..Len(t) : s[i + j] = t[j]

\* s.startsWith(prefix)
StartsWith(s, prefix) ==
    /\ Len(prefix) <= Len(s)
    /\ SubSeq(s, 1, Len(prefix)) = prefix

RECURSIVE Remove(_, _)
Remove(s, chars) ==
    IF s = <<>> THEN <<>>
    ELSE IF Head(s) \in chars THEN Remove(Tail(s), chars)
         ELSE <<Head(s)>> \o Remove(Tail(s), chars)

RECURSIVE TrimStart(_)
TrimStart(s) ==
    IF s # <<>> /\ Head(s) \in WhiteSpace THEN TrimStart(Tail(s)) ELSE s

RECURSIVE TrimEnd(_)
TrimEnd(s) ==
    IF s # <<>> /\ s[Len(s)] \in WhiteSpace
    THEN TrimEnd(SubSeq(s, 1, Len(s) - 1)) ELSE s

\* String.prototype.trim
Trim(s) == TrimEnd(TrimStart(s))

-----------------------------------------------------------------------------
(* utils/security.ts: sanitizeUrl *)

\* The characters of /[;&|BACKQUOTE$(){}[\]\\]/
ShellMeta == {";", "&", "|", Backtick, "$", "(", ")", "{", "}", "[", "]", "\\"}

RECURSIVE SanitizeUrlFirstOnly(_)
SanitizeUrlFirstOnly(url) ==
    IF url = <<>> THEN <<>>
    ELSE IF Head(url) \in ShellMeta THEN Tail(url)
         ELSE <<Head(url)>> \o SanitizeUrlFirstOnly(Tail(url))

\* sanitizeUrl: url.replace(/[...]/g, "")
SanitizeUrl(url) == Remove(url, ShellMeta)

-----------------------------------------------------------------------------
(* utils/security.ts: validateSoundCloudUrl.  A URL is the pieces           *)
(* <<scheme, "//", host>>, then the path ("/" and the pieces of the         *)
(* segments, each "/" a piece), then, when it has a query, "?" and the      *)
(* parameters with "&" between them, each parameter one piece.              *)

\* new URL(url).hostname; <<>> when new URL throws
Hostname(url) ==
    IF Len(url) >= 3 /\ url[1] \in {"https:", "http:"} /\ url[2] = "//"
       /\ url[3] \notin {"/", " "}
    THEN <<url[3]>> ELSE <<>>

\* The index of the "?" of a URL, or one past its end when it has no query
RECURSIVE QueryAt(_, _)
QueryAt(url, i) ==
    IF i > Len(url) \/ url[i] = "?" THEN i ELSE QueryAt(url, i + 1)

\* new URL(url).pathname: "/" for a URL with no path
Pathname(url) ==
    LET p == SubSeq(url, 4, QueryAt(url, 4) - 1)
    IN  IF p = <<>> THEN <<"/">> ELSE p

\* URLSearchParams.toString() with the "?" the URL's search puts before it
RECURSIVE Search(_)
Search(params) ==
    IF params = <<>> THEN <<>>
    ELSE IF Len(params) = 1 THEN <<"?", params[1]>>
    ELSE Search(SubSeq(params, 1, Len(params) - 1)) \o <<"&", params[Len(params)]>>

\* validDomains of SoundCloudUrlSchema
ValidDomains ==
    {"soundcloud.com", "www.soundcloud.com", "m.soundcloud.com",
     "mobile.soundcloud.com", "on.soundcloud.com"}

\* SoundCloudUrlSchema.parse(url) does not throw
SoundCloudUrlSchemaAccepts(url) ==
    /\ Hostname(url) # <<>>
    /\ Hostname(url)[1] \in ValidDomains

\* detectSoundCloudUrlType
DetectSoundCloudUrlType(url) ==
    LET \* pathname.split("/").filter(segment => segment.length > 0).length
        PathSegmentCount(pathname) ==
            Cardinality({i \in 1..Len(pathname) :
                            pathname[i] # "/" /\ (i = 1 \/ pathname[i - 1] = "/")})
    IN  LET pathname == Pathname(url)
            n == PathSegmentCount(pathname)
        IN  IF Hostname(url) = <<>> THEN [type |-> "invalid", isValid |-> FALSE]
            ELSE IF Hostname(url) = <<"on.soundcloud.com">>
            THEN [type |-> "shortened", isValid |-> TRUE]
            ELSE IF StartsWith(pathname, <<"/", "discover">>) \/ StartsWith(pathname, <<"/", "explore">>)
            THEN [type |-> "discover", isValid |-> FALSE]
            ELSE IF StartsWith(pathname, <<"/", "search">>)
            THEN [type |-> "search", isValid |-> FALSE]
            ELSE IF Includes(pathname, <<"/", "sets", "/">>)
            THEN [type |-> "playlist", isValid |-> TRUE]
            ELSE IF Includes(pathname, <<"/", "albums", "/">>)
            THEN [type |-> "album", isValid |-> TRUE]
            ELSE IF n >= 2 THEN [type |-> "track", isValid |-> TRUE]
            ELSE IF n = 1 THEN [type |-> "user", isValid |-> FALSE]
            ELSE [type |-> "unknown", isValid |-> FALSE]

\* normalizeSoundCloudUrl, for a URL new URL accepts
NormalizeSoundCloudUrl(url) ==
    LET \* The parameters of new URL(url).searchParams, in order
        SearchParams ==
            SelectSeq(SubSeq(url, QueryAt(url, 4) + 1, Len(url)), LAMBDA p : p # "&")
        \* The parameters whose key is one of allowedParams
        AllowedParams == {"si=1", "t=2", "in=x", "utm_source=a"}
        \* parsed.toString()
        Href(scheme, host, pathname, params) ==
            <<scheme, "//", host>> \o pathname \o Search(params)
    IN  LET host == Hostname(url)[1]
        IN  IF host = "on.soundcloud.com"
            THEN Href(url[1], host, Pathname(url), SearchParams)
            ELSE Href(url[1],
                      IF host \in {"m.soundcloud.com", "mobile.soundcloud.com"}
                      THEN "soundcloud.com" ELSE host,
                      Pathname(url),
                      SelectSeq(SearchParams, LAMBDA p : p \in AllowedParams))

\* validateSoundCloudUrl; an absent field of the result is <<>>
ValidateSoundCloudUrl(url) ==
    LET \* errorMessages[type]
        ErrorMessages(type) ==
            CASE type = "discover" -> "Discover pages are not downloadable. Please use a specific track or playlist URL."
              [] type = "search" -> "Search pages are not downloadable. Please use a specific track or playlist URL."
              [] type = "user" -> "User profile URLs are not directly downloadable. Please use a specific track or playlist URL."
              [] type = "unknown" -> "This SoundCloud URL format is not supported for downloading."
              [] OTHER -> "Invalid SoundCloud URL format."
    IN  IF ~SoundCloudUrlSchemaAccepts(url)
        THEN [isValid |-> FALSE,
              error |-> <<IF Hostname(url) = <<>> THEN "Invalid URL format"
                          ELSE "Must be a valid SoundCloud URL">>,
              sanitizedUrl |-> <<>>, urlType |-> <<>>]
        ELSE LET d == DetectSoundCloudUrlType(url)
             IN  IF ~d.isValid
                 THEN [isValid |-> FALSE, error |-> <<ErrorMessages(d.type)>>,
                       sanitizedUrl |-> <<>>, urlType |-> <<d.type>>]
                 ELSE [isValid |-> TRUE, error |-> <<>>,
                       sanitizedUrl |-> <<SanitizeUrl(NormalizeSoundCloudUrl(url))>>,
                       urlType |-> <<d.type>>]

-----------------------------------------------------------------------------
(* utils/security.ts: validateCommandArgs *)

MaxArgLength == 2000

\* null or undefined where an argument is expected
NullArg == <<"NULL-VALUE">>

HasDangerousPatternNoRedirect(s) ==
    \/ Includes(s, <<"$", "(">>)
    \/ Cardinality({i \in 1..Len(s) : s[i] = Backtick}) >= 2
    \/ Includes(s, <<"&", "&">>)
    \/ Includes(s, <<"|", "|">>)
    \/ Includes(s, <<";">>)

\* dangerousPatterns.some(pattern => pattern.test(stringArg))
HasDangerousPattern(s) ==
    \/ Includes(s, <<"$", "(">>)                              \* /\$\(/
    \/ Cardinality({i \in 1..Len(s) : s[i] = Backtick}) >= 2       \* /BACKQUOTE[^BACKQUOTE]*BACKQUOTE/
    \/ Includes(s, <<"&", "&">>)                              \* /&&/
    \/ Includes(s, <<"|", "|">>)                              \* /\|\|/
    \/ Includes(s, <<";">>)                                   \* /;/
    \/ Includes(s, <<">">>)                                   \* />/
    \/ Includes(s, <<"<">>)                                   \* /</

\* stringArg.replace(/[\x00-\x1f\x7f-\x9f]/g, '').trim()
SanitizeArg(s) == Trim(Remove(s, ControlChars))

\* The error the loop body pushes for one argument, or <<>> when it pushes
\* the sanitized argument instead.
ArgError(s) ==
    IF s = NullArg THEN <<"Argument cannot be null or undefined">>
    ELSE IF StrLen(s) > MaxArgLength THEN <<"Argument too long">>
    ELSE IF HasDangerousPattern(s) THEN <<"Potentially dangerous pattern in argument">>
    ELSE IF StrLen(SanitizeArg(s)) = 0 /\ StrLen(s) > 0
         THEN <<"Argument became empty after sanitization">>
    ELSE <<>>

RECURSIVE ArgErrors(_)
ArgErrors(args) ==
    IF args = <<>> THEN <<>>
    ELSE (IF ArgError(Head(args)) = <<>> THEN <<>> ELSE <<ArgError(Head(args))>>)
         \o ArgErrors(Tail(args))

RECURSIVE SanitizedArgs(_)
SanitizedArgs(args) ==
    IF args = <<>> THEN <<>>
    ELSE (IF ArgError(Head(args)) = <<>> THEN <<SanitizeArg(Head(args))>> ELSE <<>>)
         \o SanitizedArgs(Tail(args))

ValidateCommandArgsKeepsAccepted(args) ==
    LET errors == ArgErrors(args)
    IN  [isValid       |-> errors = <<>>,
         errors        |-> IF errors # <<>> THEN <<errors>> ELSE <<>>,
         sanitizedArgs |-> <<SanitizedArgs(args)>>]

\* validateCommandArgs(args); errors and sanitizedArgs are <<>> for undefined
\* and <<value>> otherwise.
ValidateCommandArgs(args) ==
    LET errors == ArgErrors(args)
    IN  [isValid       |-> errors = <<>>,
         errors        |-> IF errors # <<>> THEN <<errors>> ELSE <<>>,
         sanitizedArgs |-> IF errors = <<>> THEN <<SanitizedArgs(args)>> ELSE <<>>]

-----------------------------------------------------------------------------
(* soundcloud-downloader.tsx: the request and its argument vector *)

\* QUALITY_PRESETS[quality].args
QUALITY_PRESETS(quality) ==
    CASE quality = "high" ->
            << <<"-f">>, <<"best", "[", "abr", "<", "=192", "]", "/", "best">>,
               <<"--audio-quality">>, <<"0">>, <<"--audio-format">>, <<"mp3">> >>
      [] quality = "medium" ->
            << <<"-f">>, <<"best", "[", "abr", "<", "=128", "]", "/", "best">>,
               <<"--audio-quality">>, <<"5">>, <<"--audio-format">>, <<"mp3">> >>
      [] quality = "low" ->
            << <<"-f">>, <<"best", "[", "abr", "<", "=96", "]", "/", "best">>,
               <<"--audio-quality">>, <<"9">>, <<"--audio-format">>, <<"mp3">> >>

\* isValidSoundCloudUrl
IsValidSoundCloudUrl(url) ==
    Hostname(url) \in {<<"soundcloud.com">>, <<"www.soundcloud.com">>}

BuildArgsThumbnailAlways(settings, sanitizedUrl, safePath, isPlaylist) ==
       << <<"--extract-flat">>, <<"false">> >>
    \o << <<"-o">>,
          safePath \o <<"/", "%", "(", "title", ")", "s.%", "(", "ext", ")", "s">> >>
    \o QUALITY_PRESETS(settings.quality)
    \o << <<"--add-metadata">> >>
    \o (IF isPlaylist
        THEN << <<"--parse-metadata">>, <<"playlist_title:%", "(", "album", ")", "s">> >>
        ELSE << <<"--parse-metadata">>, <<"title:%", "(", "album", ")", "s">> >>)
    \o << <<"--postprocessor-args">>,
          <<"ffmpeg:-metadata", " ", "genre=\"Electronic\"">> >>
    \o << <<"--embed-thumbnail">>, <<"--no-write-thumbnail">> >>
    \o << <<"--no-write-info-json">>, <<"--no-write-description">>,
          <<"--no-write-annotations">>, <<"--no-write-comments">> >>
    \o << <<"--embed-subs">>, <<"--no-write-subs">> >>
    \o << <<"--newline">>, <<"--no-warnings">>, <<"--ignore-errors">> >>
    \o << sanitizedUrl >>

\* The argument vector executeBackgroundDownload builds
BuildArgs(settings, sanitizedUrl, safePath, isPlaylist) ==
       << <<"--extract-flat">>, <<"false">> >>
    \o << <<"-o">>,
          safePath \o <<"/", "%", "(", "title", ")", "s.%", "(", "ext", ")", "s">> >>
    \o QUALITY_PRESETS(settings.quality)
    \o << <<"--add-metadata">> >>
    \o (IF isPlaylist
        THEN << <<"--parse-metadata">>, <<"playlist_title:%", "(", "album", ")", "s">> >>
        ELSE << <<"--parse-metadata">>, <<"title:%", "(", "album", ")", "s">> >>)
    \o << <<"--postprocessor-args">>,
          <<"ffmpeg:-metadata", " ", "genre=\"Electronic\"">> >>
    \o (IF settings.embedThumbnail
        THEN << <<"--embed-thumbnail">>, <<"--no-write-thumbnail">> >>
        ELSE <<>>)
    \o << <<"--no-write-info-json">>, <<"--no-write-description">>,
          <<"--no-write-annotations">>, <<"--no-write-comments">> >>
    \o << <<"--embed-subs">>, <<"--no-write-subs">> >>
    \o << <<"--newline">>, <<"--no-warnings">>, <<"--ignore-errors">> >>
    \o << sanitizedUrl >>

\* handleDownload's check of one input string with validateCommandArgs:
\* <<sanitized>> when it passes, <<>> when handleDownload throws.
\* (!v.isValid || !v.sanitizedArgs?.[0]: an empty sanitized string is falsy.)
CheckedInput(s) ==
    LET v == ValidateCommandArgs(<<s>>)
    IN  IF v.isValid /\ v.sanitizedArgs[1][1] # <<>>
        THEN <<v.sanitizedArgs[1][1]>> ELSE <<>>

\* The URLs entered in the form
UrlInputs ==
    { <<"https:", "//", "soundcloud.com", "/", "artist", "/", "track">>,
      <<"https:", "//", "soundcloud.com", "/", "artist", "/", "sets", "/", "mix">>,
      <<"https:", "//", "soundcloud.com", "/", "artist", "/", "track", "?si=1", "&", "t=2">>,
      <<"https:", "//", "soundcloud.com", "/", "artist", "/", "track", ";", "id">>,
      <<"https:", "//", "example.com", "/", "artist", "/", "track">>,
      <<" ">> }

\* os.homedir()
HomeDir == <<"/", "Users", "/", "me">>

\* The segments of a path: the runs of pieces between its "/", each a
\* string of its own ("me2" is <<"me", "2">>); empty runs are dropped.
RECURSIVE PathSegments(_, _, _)
PathSegments(acc, cur, p) ==
    IF p = <<>> THEN (IF cur = <<>> THEN acc ELSE Append(acc, cur))
    ELSE IF Head(p) = "/"
         THEN PathSegments(IF cur = <<>> THEN acc ELSE Append(acc, cur), <<>>, Tail(p))
         ELSE PathSegments(acc, Append(cur, Head(p)), Tail(p))

\* path.resolve of an absolute path: the segments left, "." dropped and ".."
\* applied
RECURSIVE ResolveSegments(_, _)
ResolveSegments(done, rest) ==
    IF rest = <<>> THEN done
    ELSE LET h == Head(rest)
         IN  IF h = <<".">>
             THEN ResolveSegments(done, Tail(rest))
             ELSE IF h = <<"..">>
             THEN ResolveSegments(SubSeq(done, 1, Len(done) - 1), Tail(rest))
             ELSE ResolveSegments(Append(done, h), Tail(rest))

RECURSIVE JoinSegments(_)
JoinSegments(segs) ==
    IF segs = <<>> THEN <<>> ELSE <<"/">> \o Head(segs) \o JoinSegments(Tail(segs))

\* path.resolve(inputPath), for an absolute inputPath
Resolve(p) ==
    LET segs == ResolveSegments(<<>>, PathSegments(<<>>, <<>>, p))
    IN  IF segs = <<>> THEN <<"/">> ELSE JoinSegments(segs)

\* The test validateAndSanitizePath makes of a path
ResolvesInsideHome(p) == StartsWith(Resolve(p), HomeDir)

\* OutputPathSchema.parse(inputPath) does not throw
OutputPathSchemaAccepts(p) ==
    LET \* safePaths of OutputPathSchema
        SafePaths ==
            { HomeDir } \cup { HomeDir \o <<"/", d>> : d \in {"Downloads", "Documents", "Desktop", "Music"} }
    IN  /\ StrLen(p) >= 1
        /\ \E safePath \in SafePaths : StartsWith(Resolve(p), safePath)

\* validateAndSanitizePath: <<resolved>> when it returns, <<>> when it throws
ValidateAndSanitizePath(p) ==
    IF OutputPathSchemaAccepts(p) /\ ResolvesInsideHome(p) THEN <<Resolve(p)>> ELSE <<>>

SettingsInputs ==
    LET QualityKeys == {"high", "medium", "low"}
        \* The values of settings.downloadPath: the default
        \* join(homedir(), "Downloads", "SoundCloud") and what the settings form's
        \* text field is given.
        PathInputs ==
            { HomeDir \o <<"/", "Downloads", "/", "SoundCloud">>,
              <<"/", "etc">>,
              HomeDir \o <<"/", "..", "/", "other">>,
              HomeDir \o <<"/", "a", ">", "b">> }
    IN  [quality : QualityKeys, downloadPath : PathInputs,
         openInAppleMusic : BOOLEAN, embedThumbnail : BOOLEAN]

-----------------------------------------------------------------------------
(* soundcloud-downloader.tsx: the supervisor's values *)

MaxTime == 1

MaxChunkLines == 2

\* An optional value that is present
Some(v) == <<v>>

\* The text of a stdout line is a string of pieces: a tag ("[download]",
\* "[info]"), a blank, a digit, a punctuation character or a run of letters
\* is a piece of its own.
Digits == {"0", "1", "2", "3", "4", "5", "6", "7", "8", "9"}

Blanks == {" ", "\t"}

\* t[i], or "" past the end of t
At(t, i) == IF i \in 1..Len(t) THEN t[i] ELSE ""

\* The first index from i on whose piece is not a blank, resp. not a digit
RECURSIVE SkipBlanks(_, _)
SkipBlanks(t, i) == IF At(t, i) \in Blanks THEN SkipBlanks(t, i + 1) ELSE i

RECURSIVE SkipDigits(_, _)
SkipDigits(t, i) == IF At(t, i) \in Digits THEN SkipDigits(t, i + 1) ELSE i

\* The first index from i on whose piece is a blank or "/", or one past the end
RECURSIVE WordEnd(_, _)
WordEnd(t, i) ==
    IF i > Len(t) \/ t[i] \in Blanks \cup {"/"} THEN i ELSE WordEnd(t, i + 1)

RECURSIVE NatOf(_)
NatOf(ds) ==
    LET \* The value of a digit and of a string of digits
        DigitValue(d) == CHOOSE n \in 0..9 : ToString(n) = d
    IN  IF ds = <<>> THEN 0 ELSE 10 * NatOf(SubSeq(ds, 1, Len(ds) - 1)) + DigitValue(ds[Len(ds)])

\* A number: m / 10^e, with no trailing zero among the e decimals
Number(n) == [m |-> n, e |-> 0]

RECURSIVE DropTrailingZeros(_)
DropTrailingZeros(ds) ==
    IF ds # <<>> /\ ds[Len(ds)] = "0"
    THEN DropTrailingZeros(SubSeq(ds, 1, Len(ds) - 1)) ELSE ds

\* The first index from i on whose piece is ":", or one past the end
RECURSIVE ColonAt(_, _)
ColonAt(t, i) == IF i > Len(t) \/ t[i] = ":" THEN i ELSE ColonAt(t, i + 1)

\* The leftmost of the indices where a pattern matches
Leftmost(hits) == CHOOSE i \in hits : \A j \in hits : i <= j

\* line.match(pattern): the groups of the leftmost match, or <<>>
DownloadMatch(t) ==
    LET \* The group of /(?:\s+ETA\s+(\d+:\d+))?/ at index n of t, <<>> if it
        \* is skipped
        EtaAt(n) ==
            LET p == SkipBlanks(t, n)
                q == SkipBlanks(t, p + 1)
                r == SkipDigits(t, q)
                s == SkipDigits(t, r + 1)
            IN  IF p > n /\ At(t, p) = "ETA" /\ q > p + 1 /\ r > q /\ At(t, r) = ":" /\ s > r + 1
                THEN <<SubSeq(t, q, s - 1)>> ELSE <<>>
        \* parseFloat of digits "." digits
        ParseFloat(whole, frac) ==
            LET f == DropTrailingZeros(frac)
            IN  [m |-> NatOf(whole \o f), e |-> Len(f)]
        \* w matches /^[\d.]+\w+$/
        SizeShape(w) ==
            LET \* The pieces that are not made of word characters (\w)
                NonWordPieces == Blanks \cup {".", "%", ":", "~", "/", ",", "[download]", "[info]", "[ffmpeg]"}
            IN  \E k \in 1..(Len(w) - 1) :
                    /\ \A i \in 1..k : w[i] \in Digits \cup {"."}
                    /\ \A i \in (k + 1)..Len(w) : w[i] \notin NonWordPieces
    IN  LET \* The groups of
            \* /\[download\]\s+(\d+\.\d+)%\s+of\s+([\d.]+\w+)\s+at\s+([\d.]+\w+\/s)(?:\s+ETA\s+(\d+:\d+))?/
            \* matched with its tag at index i of t, or <<>>
            DownloadMatchAt(i) ==
                LET b == SkipBlanks(t, i + 1)
                    c == SkipDigits(t, b)
                    d == SkipDigits(t, c + 1)
                    f == SkipBlanks(t, d + 1)
                    g == SkipBlanks(t, f + 1)
                    h == WordEnd(t, g)
                    k == SkipBlanks(t, h)
                    l == SkipBlanks(t, k + 1)
                    m == WordEnd(t, l)
                IN  IF /\ At(t, i) = "[download]"
                       /\ b > i + 1
                       /\ c > b /\ At(t, c) = "." /\ d > c + 1 /\ At(t, d) = "%"
                       /\ f > d + 1 /\ At(t, f) = "of"
                       /\ g > f + 1 /\ SizeShape(SubSeq(t, g, h - 1))
                       /\ k > h /\ At(t, k) = "at"
                       /\ l > k + 1 /\ SizeShape(SubSeq(t, l, m - 1))
                       /\ At(t, m) = "/" /\ At(t, m + 1) = "s"
                    THEN <<[percentage |-> ParseFloat(SubSeq(t, b, c - 1), SubSeq(t, c + 1, d - 1)),
                            total |-> SubSeq(t, g, h - 1),
                            speed |-> SubSeq(t, l, m + 1),
                            eta |-> EtaAt(m + 2)]>>
                    ELSE <<>>
        IN  LET hits == {i \in 1..Len(t) : DownloadMatchAt(i) # <<>>}
            IN  IF hits = {} THEN <<>> ELSE DownloadMatchAt(Leftmost(hits))

PlaylistMatch(t) ==
    LET \* The groups of
        \* /\[download\]\s+Downloading\s+(?:video\s+)?(\d+)\s+of\s+(\d+)/
        \* matched with its tag at index i of t, or <<>>
        PlaylistMatchAt(i) ==
            LET b == SkipBlanks(t, i + 1)
                c == SkipBlanks(t, b + 1)
                v == SkipBlanks(t, c + 1)
                n == IF At(t, c) = "video" /\ v > c + 1 THEN v ELSE c
                d == SkipDigits(t, n)
                f == SkipBlanks(t, d)
                g == SkipBlanks(t, f + 1)
                h == SkipDigits(t, g)
            IN  IF /\ At(t, i) = "[download]"
                   /\ b > i + 1 /\ At(t, b) = "Downloading"
                   /\ c > b + 1
                   /\ d > n
                   /\ f > d /\ At(t, f) = "of"
                   /\ g > f + 1 /\ h > g
                THEN <<[currentTrack |-> NatOf(SubSeq(t, n, d - 1)),
                        totalTracks |-> NatOf(SubSeq(t, g, h - 1))]>>
                ELSE <<>>
    IN  LET hits == {i \in 1..Len(t) : PlaylistMatchAt(i) # <<>>}
        IN  IF hits = {} THEN <<>> ELSE PlaylistMatchAt(Leftmost(hits))

TitleMatch(t) ==
    LET \* The group of /\[info\]\s+([^:]+):\s+Downloading\s+webpage/, trimmed, with
        \* the tag at index i of t, or <<>>
        TitleMatchAt(i) ==
            LET c == ColonAt(t, i + 1)
                d == SkipBlanks(t, c + 1)
                f == SkipBlanks(t, d + 1)
            IN  IF /\ At(t, i) = "[info]"
                   /\ At(t, i + 1) \in Blanks /\ c > i + 2 /\ c <= Len(t)
                   /\ d > c + 1 /\ At(t, d) = "Downloading"
                   /\ f > d + 1 /\ At(t, f) = "webpage"
                THEN <<Trim(SubSeq(t, i + 1, c - 1))>>
                ELSE <<>>
    IN  LET hits == {i \in 1..Len(t) : TitleMatchAt(i) # <<>>}
        IN  IF hits = {} THEN <<>> ELSE TitleMatchAt(Leftmost(hits))

\* What the handlers' tests find in one line of the child's stdout.
\*   downloadMatch    the groups of parseProgress' first pattern
\*   playlistMatch    the groups of its second pattern
\*   titleMatch       the group of its third pattern
\*   json             "ok": the line has "title" and "uploader" and an object
\*                    JSON.parse accepts; "bad": JSON.parse throws; "none"
\*   completed        includes('[download] 100%') || includes('has already been downloaded')
\*   alreadyMatch     the group of /\[download\]\s+(.+?)\s+has already been downloaded/
\*   destinationMatch the group of /\[ffmpeg\]\s+Destination:\s+(.+)/
NoLine ==
    [downloadMatch |-> <<>>, playlistMatch |-> <<>>, titleMatch |-> <<>>,
     json |-> "none", completed |-> FALSE, alreadyMatch |-> <<>>,
     destinationMatch |-> <<>>]

\* [download]  45.5% of 5.67MiB at 1.23MiB/s ETA 00:03
ProgressLine ==
    <<"[download]", " ", " ", "4", "5", ".", "5", "%", " ", "of", " ",
      "5", ".", "6", "7", "MiB", " ", "at", " ", "1", ".", "2", "3", "MiB", "/", "s",
      " ", "ETA", " ", "0", "0", ":", "0", "3">>

\* What parseProgress' three patterns find in the text of a line
LineMatches(t) ==
    [NoLine EXCEPT !.downloadMatch = DownloadMatch(t),
                   !.playlistMatch = PlaylistMatch(t),
                   !.titleMatch = TitleMatch(t)]

StdoutLines ==
    LET \* [download] Downloading video 2 of 5
        PlaylistLine ==
            <<"[download]", " ", "Downloading", " ", "video", " ", "2", " ", "of", " ", "5">>
    IN  { LineMatches(ProgressLine),
          LineMatches(PlaylistLine),
          \* [download] 100% of 5.67MiB in 00:03
          [NoLine EXCEPT !.completed = TRUE],
          \* [download] /Users/me/Downloads/SoundCloud/a.mp3 has already been downloaded
          [NoLine EXCEPT !.completed = TRUE, !.alreadyMatch = Some("a.mp3")],
          \* [download] /Users/me/Downloads/SoundCloud/b.mp3 has already been downloaded
          [NoLine EXCEPT !.completed = TRUE, !.alreadyMatch = Some("b.mp3")],
          \* [ffmpeg] Destination: /Users/me/Downloads/SoundCloud/a.mp3
          [NoLine EXCEPT !.destinationMatch = Some("a.mp3")],
          \* {"title": "T", "uploader": "U"}
          [NoLine EXCEPT !.json = "ok"] }

\* What the tests of the stdout handler and of parseProgress find in the
\* text of a line
LineOf(t) ==
    LET opens == {i \in 1..Len(t) : t[i] = "{"}
        closes == {i \in 1..Len(t) : t[i] = "}"}
        last == CHOOSE i \in closes : \A j \in closes : j <= i
        \* JSON.parse of "key": value members between braces
        JsonStrings == {"\"title\"", "\"uploader\"", "\"T\"", "\"U\""}
        RECURSIVE Members(_)
        Members(s) ==
            \/ s = <<>>
            \/ /\ Len(s) >= 3
               /\ s[1] \in JsonStrings /\ s[2] = ":" /\ s[3] \in JsonStrings
               /\ \/ Len(s) = 3
                  \/ Len(s) > 4 /\ s[4] = "," /\ Members(SubSeq(s, 5, Len(s)))
        \* line.match(/\{.*\}/): from the first "{" to the last "}"
        json ==
            IF /\ Includes(t, <<"\"title\"">>) /\ Includes(t, <<"\"uploader\"">>)
               /\ opens # {} /\ closes # {} /\ Leftmost(opens) < last
            THEN IF Members(SelectSeq(SubSeq(t, Leftmost(opens) + 1, last - 1),
                                      LAMBDA p : p \notin Blanks))
                 THEN "ok" ELSE "bad"
            ELSE "none"
        Already == <<"has", " ", "already", " ", "been", " ", "downloaded">>
        \* /\[download\]\s+(.+?)\s+has already been downloaded/, the group trimmed
        alreadyAt(i, h) ==
            /\ At(t, i) = "[download]" /\ At(t, i + 1) \in Blanks
            /\ h >= i + 4 /\ At(t, h - 1) \in Blanks
            /\ h + Len(Already) - 1 <= Len(t)
            /\ SubSeq(t, h, h + Len(Already) - 1) = Already
        alreadyHits == {i \in 1..Len(t) : \E h \in 1..Len(t) : alreadyAt(i, h)}
        \* /\[ffmpeg\]\s+Destination:\s+(.+)/, the group trimmed
        destinationAt(i) ==
            LET b == SkipBlanks(t, i + 1)
            IN  /\ At(t, i) = "[ffmpeg]" /\ b > i + 1
                /\ At(t, b) = "Destination" /\ At(t, b + 1) = ":"
                /\ At(t, b + 2) \in Blanks /\ Len(t) >= b + 3
        destinationHits == {i \in 1..Len(t) : destinationAt(i)}
    IN  [LineMatches(t) EXCEPT
            !.json = json,
            !.completed = \/ Includes(t, <<"[download]", " ", "1", "0", "0", "%">>)
                          \/ Includes(t, Already),
            !.alreadyMatch =
                IF alreadyHits = {} THEN <<>>
                ELSE LET i == Leftmost(alreadyHits)
                         h == Leftmost({k \in 1..Len(t) : alreadyAt(i, k)})
                     IN  Trim(SubSeq(t, i + 2, h - 2)),
            !.destinationMatch =
                IF destinationHits = {} THEN <<>>
                ELSE LET b == SkipBlanks(t, Leftmost(destinationHits) + 1)
                     IN  Trim(SubSeq(t, b + 3, Len(t)))]

\* The file paths the lines of a chunk carry
RECURSIVE PathsCarried(_)
PathsCarried(lines) ==
    IF lines = <<>> THEN {}
    ELSE LET line == Head(lines)
         IN  (IF line.alreadyMatch # <<>> THEN {line.alreadyMatch[1]}
              ELSE IF line.destinationMatch # <<>> THEN {line.destinationMatch[1]}
              ELSE {})
             \cup PathsCarried(Tail(lines))

\* One chunk of the child's stderr: its text (numbered) and the lines in it
StderrChunks ==
    LET \* The lines the child writes to stderr
        ErrorLine == [hasError |-> TRUE, hasWarning |-> FALSE]
        WarningLine == [hasError |-> FALSE, hasWarning |-> TRUE]
    IN  { [text |-> 1, lines |-> <<ErrorLine>>],
          [text |-> 2, lines |-> <<ErrorLine>>],
          [text |-> 3, lines |-> <<WarningLine, ErrorLine>>],
          [text |-> 4, lines |-> <<WarningLine>>] }

\* The exit codes of a child that ran, and of one that could not be launched
ExitCodes == {0, 1}

SpawnErrnos == {-2}

\* The ids generateOperationId hands out, in order
IdOrder == <<"opA">>

\* { elapsedTime: "0:00" }
InitialProgress == [EmptyProgress EXCEPT !.elapsedTime = Some(<<0, 0>>)]

\* calculateElapsedTime: minutes and seconds since startTime
CalculateElapsedTime(startTime, t) ==
    LET elapsed == t - startTime
    IN  <<elapsed \div 60, elapsed % 60>>

ParseProgressEtaAlways(line) ==
    IF line.downloadMatch # <<>>
    THEN LET m == line.downloadMatch[1]
         IN  ("percentage" :> Some(m.percentage)) @@ ("total" :> Some(m.total))
             @@ ("speed" :> Some(m.speed)) @@ ("eta" :> m.eta)
    ELSE <<>>

\* parseProgress: the sparse update of one line
ParseProgress(line) ==
    IF line.downloadMatch # <<>>
    THEN LET m == line.downloadMatch[1]
         IN  ("percentage" :> Some(m.percentage)) @@ ("total" :> Some(m.total))
             @@ ("speed" :> Some(m.speed))
             @@ (IF m.eta # <<>> THEN ("eta" :> m.eta) ELSE <<>>)
    ELSE IF line.playlistMatch # <<>>
    THEN LET m == line.playlistMatch[1]
         IN  ("currentTrack" :> Some(m.currentTrack))
             @@ ("totalTracks" :> Some(m.totalTracks))
    ELSE IF line.titleMatch # <<>>
    THEN ("trackTitle" :> line.titleMatch)
    ELSE <<>>

InitSupVars ==
    LET \* The supervisor of an id no request has been given
        NoSup ==
            [pc |-> "unused", openInAppleMusic |-> FALSE, argsValid |-> FALSE, child |-> "none",
             exitCode |-> <<>>, timer |-> FALSE, startTime |-> 0,
             currentProgress |-> EmptyProgress, trackInfo |-> Null,
             downloadedFiles |-> <<>>]
        NoObs ==
            [dispatched |-> <<>>, dispatchFailures |-> 0, clearIntervals |-> 0,
             terminalUpdates |-> 0, lastError |-> <<>>, announced |-> {}, published |-> <<>>]
    IN  /\ sup = [id \in OpIds |-> NoSup]
        /\ now = 0
        /\ obs = [id \in OpIds |-> NoObs]

-----------------------------------------------------------------------------
(* The request variables of SpecArgs, at rest *)

NoArgIn == [sanitizedUrl |-> <<>>, safePath |-> <<>>, isPlaylist |-> FALSE]

NoArgCheck == [isValid |-> FALSE, errors |-> <<>>, sanitizedArgs |-> <<>>]

InitArgsIdle ==
    LET NoArgReq ==
            [url |-> <<>>,
             settings |-> [quality |-> "high",
                           downloadPath |-> HomeDir \o <<"/", "Downloads", "/", "SoundCloud">>,
                           openInAppleMusic |-> TRUE, embedThumbnail |-> TRUE]]
    IN  /\ argPhase = "idle"
        /\ argReq = NoArgReq
        /\ argIn = NoArgIn
        /\ argv = <<>>
        /\ argCheck = NoArgCheck
        /\ argResult = "none"

-----------------------------------------------------------------------------
(* The stdout stream variables of SpecChunks, at rest *)

InitChunksIdle ==
    /\ stdoutStream = <<>>
    /\ stdoutRead = 0
    /\ parsedLines = <<>>

-----------------------------------------------------------------------------
(* The variables of the specifications of one function call, at rest *)

InitCallIdle ==
    /\ callPhase = "idle"
    /\ callIn = <<>>
    /\ callOut = <<>>

\* The variables of utils/performance.ts' ProcessManager and of
\* utils/security.ts' RateLimiter, as constructed: both hold nothing
InitUtilsIdle ==
    /\ processes = <<>>
    /\ procs = <<>>
    /\ requests = <<>>
    /\ clock = 0
    /\ granted = <<>>

\* Everything but the call variables at rest
InitRestOfCall ==
    InitStoreVars /\ InitArgsIdle /\ InitSupVars /\ InitChunksIdle /\ InitUtilsIdle

-----------------------------------------------------------------------------
(* Spec: the supervisor *)

Init ==
    InitStoreVars /\ InitArgsIdle /\ InitSupVars /\ InitChunksIdle /\ InitCallIdle /\ InitUtilsIdle

\* The store as a handler sees it
World == [ops |-> globalOperations, dl |-> delivered]

\* The handler's updateOperationState calls, in order
RECURSIVE ApplyUpdates(_, _, _, _)
ApplyUpdates(w, ls, id, us) ==
    IF us = <<>> THEN w
    ELSE ApplyUpdates(UpdateOperationState(w, ls, id, Head(us)), ls, id, Tail(us))

\* The downloadedFiles lists that the updates us publish, in order
RECURSIVE FilesPublished(_)
FilesPublished(us) ==
    IF us = <<>> THEN <<>>
    ELSE (IF "downloadedFiles" \in DOMAIN Head(us)
          THEN <<Head(us).downloadedFiles>> ELSE <<>>)
         \o FilesPublished(Tail(us))

\* A handler of operation id ran: it made the updates us, left the closure l
\* and the observations o
Handled(id, us, l, o) ==
    /\ LET w == ApplyUpdates(World, globalListeners, id, us)
       IN  /\ globalOperations' = w.ops
           /\ delivered' = w.dl
    /\ sup' = [sup EXCEPT ![id] = l]
    /\ obs' = [obs EXCEPT ![id] = [o EXCEPT !.published = @ \o FilesPublished(us)]]
    /\ UNCHANGED <<globalListeners, snapshot, subAt, applied, argVars, chunkVars, callVars, utilVars>>

\* handleDownload, up to its await of the "Starting Download" toast: the
\* request is turned down (a failure toast, nothing else changes), or gets an
\* operation id.  Modelled while an id is left to hand out.
HandleDownload(url, settings) ==
    LET \* The id generateOperationId returns: one not handed out before
        FreshIds == {i \in 1..Len(IdOrder) : sup[IdOrder[i]].pc = "unused"}
    IN  /\ FreshIds # {}
        /\ LET u  == CheckedInput(url)
               p  == CheckedInput(settings.downloadPath)
               id == IdOrder[CHOOSE i \in FreshIds : \A j \in FreshIds : i <= j]
           IN  IF Trim(url) = <<>> \/ ~IsValidSoundCloudUrl(url) \/ u = <<>> \/ p = <<>>
               THEN UNCHANGED sup
               ELSE sup' = [sup EXCEPT ![id] =
                               [@ EXCEPT !.pc = "toast",
                                         !.openInAppleMusic = settings.openInAppleMusic]]
        /\ UNCHANGED <<storeVars, argVars, chunkVars, callVars, utilVars, now, obs>>

\* The update with which executeBackgroundDownload begins
StartUpdate == [isActive |-> TRUE, error |-> Null, progress |-> InitialProgress]

\* The update of executeBackgroundDownload's catch block
CatchUpdate(message) == [isActive |-> FALSE, error |-> message]

\* executeBackgroundDownload up to the end of its synchronous part.
\* argsValid is the verdict of the final validateCommandArgs, an input here
\* (SpecArgs computes it from the vector that is built); outcome is what
\* spawn does: it throws, or returns a child that runs ("running") or one
\* whose launch fails ("failing": 'error' is emitted on the next tick).
ExecuteBackgroundDownload(id, argsValid, outcome) ==
    /\ sup[id].pc = "toast"
    /\ LET l == [sup[id] EXCEPT !.startTime = now, !.argsValid = argsValid]
       IN  IF ~argsValid
           THEN Handled(id, <<StartUpdate, CatchUpdate(<<"Invalid command arguments", 0>>)>>,
                        [l EXCEPT !.pc = "setupFailed"], obs[id])
           ELSE IF outcome = "throws"
           THEN Handled(id, <<StartUpdate, CatchUpdate(<<"spawn", 0>>)>>,
                        [l EXCEPT !.pc = "setupFailed"], obs[id])
           ELSE Handled(id, <<StartUpdate>>,
                        [l EXCEPT !.pc = "spawned", !.child = outcome,
                                  !.currentProgress = InitialProgress,
                                  !.timer = TRUE],
                        obs[id])
    /\ UNCHANGED now

\* Date.now() advances
TimePasses ==
    /\ now < MaxTime
    /\ now' = now + 1
    /\ UNCHANGED <<storeVars, argVars, chunkVars, callVars, utilVars, sup, obs>>

\* The setInterval callback.  A launch failure's 'error' is emitted on the
\* next tick, before any timer can fire.
TimerTick(id) ==
    /\ sup[id].timer
    /\ sup[id].child # "failing"
    /\ LET cp == [sup[id].currentProgress EXCEPT
                    !.elapsedTime = Some(CalculateElapsedTime(sup[id].startTime, now))]
       IN  Handled(id, <<[progress |-> cp]>>,
                   [sup[id] EXCEPT !.currentProgress = cp], obs[id])
    /\ UNCHANGED now

NeverListed(files, f) == FALSE

\* downloadedFiles.includes(filePath)
AlreadyListed(files, f) == \E i \in 1..Len(files) : files[i] = f

\* The body of the stdout handler's loop for one line, on
\* a = [us, cp, ti, files]: the updates made so far and the closure's locals
StdoutLine(a, line) ==
    LET upd == ParseProgress(line)
        \* { ...currentProgress, ...progressUpdate }
        MergeProgress ==
            [k \in DOMAIN a.cp |-> IF k \in DOMAIN upd THEN upd[k] ELSE a.cp[k]]
        a1  == IF DOMAIN upd # {}
               THEN [a EXCEPT !.cp = MergeProgress,
                              !.us = Append(a.us, [progress |-> MergeProgress])]
               ELSE a
        a2  == IF line.json = "ok"
               THEN [a1 EXCEPT !.ti = Some("info"),
                               !.us = Append(a1.us, [trackInfo |-> Some("info")])]
               ELSE a1
        fileMatch == IF line.alreadyMatch # <<>> THEN line.alreadyMatch
                     ELSE line.destinationMatch
        a3  == IF line.completed /\ fileMatch # <<>>
                  /\ ~AlreadyListed(a2.files, fileMatch[1])
               THEN [a2 EXCEPT !.files = Append(a2.files, fileMatch[1]),
                               !.us = Append(a2.us,
                                   [downloadedFiles |-> Append(a2.files, fileMatch[1])])]
               ELSE a2
    IN  a3

RECURSIVE StdoutLinesLoop(_, _)
StdoutLinesLoop(a, lines) ==
    IF lines = <<>> THEN a
    ELSE StdoutLinesLoop(StdoutLine(a, Head(lines)), Tail(lines))

\* downloadProcess.stdout.on('data'): chunk is the chunk's non-blank lines
StdoutData(id, chunk) ==
    /\ sup[id].pc = "spawned"
    /\ sup[id].child = "running"
    /\ LET a == StdoutLinesLoop([us |-> <<>>, cp |-> sup[id].currentProgress,
                                 ti |-> sup[id].trackInfo,
                                 files |-> sup[id].downloadedFiles], chunk)
       IN  Handled(id, a.us,
                   [sup[id] EXCEPT !.currentProgress = a.cp, !.trackInfo = a.ti,
                                   !.downloadedFiles = a.files],
                   [obs[id] EXCEPT !.announced = @ \cup PathsCarried(chunk)])
    /\ UNCHANGED now

\* The stderr handler's updates
StderrUpdates(chunk) ==
    LET \* errorText.includes('ERROR:'), errorText.includes('WARNING:')
        IncludesError == \E i \in 1..Len(chunk.lines) : chunk.lines[i].hasError
        IncludesWarning == \E i \in 1..Len(chunk.lines) : chunk.lines[i].hasWarning
    IN  IF IncludesError /\ ~IncludesWarning
        THEN <<[error |-> <<"Download error", chunk.text>>]>>
        ELSE <<>>

\* downloadProcess.stderr.on('data')
StderrData(id, chunk) ==
    /\ sup[id].pc = "spawned"
    /\ sup[id].child = "running"
    /\ LET \* The chunk carries an ERROR diagnostic: a line with ERROR: and
           \* no WARNING:
           HasErrorDiagnostic ==
               \E i \in 1..Len(chunk.lines) :
                   chunk.lines[i].hasError /\ ~chunk.lines[i].hasWarning
       IN  Handled(id, StderrUpdates(chunk), sup[id],
                   [obs[id] EXCEPT !.lastError =
                        IF HasErrorDiagnostic THEN Some(chunk.text) ELSE @])
    /\ UNCHANGED now

ClearIntervalLeavesTimer(l, o) ==
    [l |-> l, o |-> [o EXCEPT !.clearIntervals = @ + 1]]

\* clearInterval(timeInterval)
ClearInterval(l, o) ==
    [l |-> [l EXCEPT !.timer = FALSE],
     o |-> [o EXCEPT !.clearIntervals = @ + 1]]

CloseSucceededByCode(code, files) == code = 0

\* The close handler's test of success
CloseSucceeded(code, files) == code = 0 \/ Len(files) > 0

CloseUpdateStaysActive(code, l) ==
    IF CloseSucceeded(code, l.downloadedFiles)
    THEN [isCompleted |-> TRUE,
          progress |-> [l.currentProgress EXCEPT
                           !.percentage = Some(Number(100)),
                           !.elapsedTime = Some(CalculateElapsedTime(l.startTime, now))],
          downloadedFiles |-> l.downloadedFiles]
    ELSE [isActive |-> FALSE, error |-> <<"Download failed with exit code", code>>]

\* The close handler's update
CloseUpdate(code, l) ==
    IF CloseSucceeded(code, l.downloadedFiles)
    THEN [isActive |-> FALSE, isCompleted |-> TRUE,
          progress |-> [l.currentProgress EXCEPT
                           !.percentage = Some(Number(100)),
                           !.elapsedTime = Some(CalculateElapsedTime(l.startTime, now))],
          downloadedFiles |-> l.downloadedFiles]
    ELSE [isActive |-> FALSE, error |-> <<"Download failed with exit code", code>>]

CloseDispatchOnFailure(code, l) ==
    IF l.openInAppleMusic THEN <<l.downloadedFiles>> ELSE <<>>

\* The dispatcher calls of the close handler: openInAppleMusic(downloadedFiles)
CloseDispatch(code, l) ==
    IF CloseSucceeded(code, l.downloadedFiles)
       /\ l.openInAppleMusic /\ Len(l.downloadedFiles) > 0
    THEN <<l.downloadedFiles>> ELSE <<>>

CloseDispatchFirst(code, l) == CloseDispatch(code, l)

\* The dispatcher calls the close handler makes before its update and its
\* await of showToast: none
CloseDispatchBeforeToast(code, l) == <<>>

OpenFailureReported(l) == <<CatchUpdate(<<"Error opening Apple Music", 0>>)>>

\* The updates made when openInAppleMusic fails: its catch only logs
OpenFailureUpdates(l) == <<>>

\* downloadProcess.on('close'), up to its await of showToast: the child that
\* ran exits with a code; the child whose launch failed closes, after its
\* 'error', with the errno.  child is "closing" while the handler waits.
ProcClose(id, code) ==
    /\ sup[id].pc = "spawned"
    /\ \/ sup[id].child = "running" /\ code \in ExitCodes
       \/ sup[id].child = "errored" /\ code \in SpawnErrnos
    /\ LET c == ClearInterval(sup[id], obs[id])
       IN  Handled(id, <<CloseUpdate(code, c.l)>>,
                   [c.l EXCEPT !.child = "closing", !.exitCode = Some(code)],
                   [c.o EXCEPT !.terminalUpdates = @ + 1,
                               !.dispatched = @ \o CloseDispatchBeforeToast(code, c.l)])
    /\ UNCHANGED now

\* The close handler after its await of showToast: on success, with the
\* setting on and files listed, openInAppleMusic(downloadedFiles), which
\* runs through (opened) or fails.
ProcCloseAfterToast(id, opened) ==
    /\ sup[id].pc = "spawned"
    /\ sup[id].child = "closing"
    /\ LET l == sup[id]
           calls == CloseDispatch(l.exitCode[1], l)
           failed == calls # <<>> /\ ~opened
       IN  /\ calls = <<>> => opened
           /\ Handled(id, IF failed THEN OpenFailureUpdates(l) ELSE <<>>,
                      [l EXCEPT !.child = "closed"],
                      [obs[id] EXCEPT !.dispatched = @ \o calls,
                                      !.dispatchFailures = @ + (IF failed THEN 1 ELSE 0)])
    /\ UNCHANGED now

\* downloadProcess.on('error')
ProcError(id, errno) ==
    /\ sup[id].pc = "spawned"
    /\ sup[id].child = "failing"
    /\ LET c == ClearInterval(sup[id], obs[id])
       IN  Handled(id,
                   <<[isActive |-> FALSE, error |-> <<"Process error", errno>>]>>,
                   [c.l EXCEPT !.child = "errored"],
                   [c.o EXCEPT !.terminalUpdates = @ + 1])
    /\ UNCHANGED now

Next ==
    \/ \E url \in UrlInputs, settings \in SettingsInputs : HandleDownload(url, settings)
    \/ \E id \in OpIds, argsValid \in BOOLEAN, outcome \in {"running", "failing", "throws"} :
          ExecuteBackgroundDownload(id, argsValid, outcome)
    \/ TimePasses
    \/ \E id \in OpIds : TimerTick(id)
    \/ \E id \in OpIds, chunk \in UNION { [1..n -> StdoutLines] : n \in 1..MaxChunkLines } :
            StdoutData(id, chunk)
    \/ \E id \in OpIds, chunk \in StderrChunks : StderrData(id, chunk)
    \/ \E id \in OpIds, code \in ExitCodes \cup SpawnErrnos : ProcClose(id, code)
    \/ \E id \in OpIds, opened \in BOOLEAN : ProcCloseAfterToast(id, opened)
    \/ \E id \in OpIds, errno \in SpawnErrnos : ProcError(id, errno)

Spec == Init /\ [][Next]_vars

-----------------------------------------------------------------------------
(* SpecArgs: one request from the form to the final check of its vector *)

InitArgs ==
    /\ InitStoreVars
    /\ InitSupVars
    /\ InitChunksIdle
    /\ InitCallIdle
    /\ InitUtilsIdle
    /\ argPhase = "request"
    /\ argReq \in [url : UrlInputs, settings : SettingsInputs]
    /\ argIn = NoArgIn
    /\ argv = <<>>
    /\ argCheck = NoArgCheck
    /\ argResult = "none"

\* handleDownload up to its call of executeBackgroundDownload: it turns the
\* request down (a failure toast; no operation id is generated), or
\* generates the operation id and goes on.
CheckInputs ==
    /\ argPhase = "request"
    /\ LET url  == argReq.url
           u    == CheckedInput(url)
           p    == CheckedInput(argReq.settings.downloadPath)
           \* isPlaylistUrl
           IsPlaylistUrl(x) ==
               Includes(x, <<"/", "sets", "/">>) \/ Includes(x, <<"/", "albums", "/">>)
       IN  IF Trim(url) = <<>> \/ ~IsValidSoundCloudUrl(url) \/ u = <<>> \/ p = <<>>
           THEN /\ argPhase' = "rejected"
                /\ argIn' = argIn
                /\ argResult' = "failed"
           ELSE /\ argPhase' = "accepted"
                /\ argIn' = [sanitizedUrl |-> u[1], safePath |-> p[1],
                             isPlaylist |-> IsPlaylistUrl(u[1])]
                /\ argResult' = argResult
    /\ UNCHANGED <<argReq, argv, argCheck>>
    /\ UNCHANGED <<storeVars, supVars, chunkVars, callVars, utilVars>>

\* The updates of the store made for the request's operation
ArgUpdates(us) ==
    /\ LET w == ApplyUpdates(World, globalListeners, IdOrder[1], us)
       IN  /\ globalOperations' = w.ops
           /\ delivered' = w.dl
    /\ UNCHANGED <<globalListeners, snapshot, subAt, applied>>

\* executeBackgroundDownload: the initial update and the argument construction
BuildVector ==
    /\ argPhase = "accepted"
    /\ argv' = BuildArgs(argReq.settings, argIn.sanitizedUrl, argIn.safePath,
                         argIn.isPlaylist)
    /\ argPhase' = "built"
    /\ ArgUpdates(<<StartUpdate>>)
    /\ UNCHANGED <<argReq, argIn, argCheck, argResult>>
    /\ UNCHANGED <<supVars, chunkVars, callVars, utilVars>>

FinalCheckSpawnsAnyway ==
    /\ argPhase = "built"
    /\ argCheck' = ValidateCommandArgs(argv)
    /\ argPhase' = "spawn"
    /\ argResult' = "started"
    /\ UNCHANGED <<argReq, argIn, argv>>
    /\ UNCHANGED <<storeVars, supVars, chunkVars, callVars, utilVars>>

\* executeBackgroundDownload: the final validation, then spawn or throw into
\* the catch block; the call returns at its first await and handleDownload
\* pushes the progress view.
FinalCheck ==
    /\ argPhase = "built"
    /\ argCheck' = ValidateCommandArgs(argv)
    /\ IF argCheck'.isValid /\ argCheck'.sanitizedArgs # <<>>
       THEN /\ argPhase' = "spawn"
            /\ UNCHANGED storeVars
       ELSE /\ argPhase' = "setupFailed"
            /\ ArgUpdates(<<CatchUpdate(<<"Invalid command arguments", 0>>)>>)
    /\ argResult' = "started"
    /\ UNCHANGED <<argReq, argIn, argv>>
    /\ UNCHANGED <<supVars, chunkVars, callVars, utilVars>>

NextArgs == CheckInputs \/ BuildVector \/ FinalCheck

SpecArgs == InitArgs /\ [][NextArgs]_vars

-----------------------------------------------------------------------------
(* SpecChunks: the child's stdout, delivered to the stdout handler in chunks *)

MaxStreamLen == 4

\* text.split('\n'): acc holds the parts closed so far, cur the open one
RECURSIVE SplitNewline(_, _, _)
SplitNewline(acc, cur, text) ==
    IF text = <<>> THEN Append(acc, cur)
    ELSE IF Head(text) = "\n" THEN SplitNewline(Append(acc, cur), <<>>, Tail(text))
    ELSE SplitNewline(acc, Append(cur, Head(text)), Tail(text))

\* line.trim() is not empty
NonBlank(line) == \E i \in 1..Len(line) : line[i] # " "

\* The lines of a text that are ended by a newline
CompleteLines(text) ==
    LET parts == SplitNewline(<<>>, <<>>, text)
    IN  SubSeq(parts, 1, Len(parts) - 1)

InitChunks ==
    LET \* The pieces of stdout text: ordinary text, white space, the newline
        StreamPieces == {"a", "b", " ", "\n"}
        \* What the child writes: whole lines, each ended by a newline
        Streams ==
            { st \in UNION { [1..n -> StreamPieces] : n \in 1..MaxStreamLen } :
                st[Len(st)] = "\n" }
    IN  /\ InitStoreVars
        /\ InitArgsIdle
        /\ InitSupVars
        /\ InitCallIdle
        /\ InitUtilsIdle
        /\ stdoutStream \in Streams
        /\ stdoutRead = 0
        /\ parsedLines = <<>>

\* downloadProcess.stdout.on('data'), for the next n pieces of the stream:
\* every line of the chunk goes through the loop body, parseProgress first
StdoutChunk(n) ==
    /\ stdoutRead + n <= Len(stdoutStream)
    /\ LET chunk == SubSeq(stdoutStream, stdoutRead + 1, stdoutRead + n)
           \* data.toString().split('\n').filter(line => line.trim())
           ChunkLines == SelectSeq(SplitNewline(<<>>, <<>>, chunk), NonBlank)
       IN  parsedLines' = parsedLines \o ChunkLines
    /\ stdoutRead' = stdoutRead + n
    /\ UNCHANGED stdoutStream
    /\ UNCHANGED <<storeVars, argVars, supVars, callVars, utilVars>>

NextChunks == \E n \in 1..MaxStreamLen : StdoutChunk(n)

SpecChunks == InitChunks /\ [][NextChunks]_vars

-----------------------------------------------------------------------------
(* SpecValidate: validateCommandArgs called on one batch of arguments *)

MaxBatch == 2

InitValidate ==
    LET \* The arguments of the batches: accepted ones, one for each way the loop
        \* body turns an argument down, and near misses of the patterns
        ArgInputs ==
            { <<"-o">>, <<" ", "a", "\t">>, <<>>, <<Run2000>>,
              <<"$", "x">>, <<Backtick, "x">>, <<"a", "&", "b">>, <<"|">>,
              NullArg,
              <<Run2000, "a">>,
              <<"$", "(", "x", ")">>, <<Backtick, "x", Backtick>>,
              <<"a", "&", "&", "b">>, <<"|", "|">>, <<"a", ";">>, <<"<">>, <<"a", ">", "b">>,
              <<"\t", " ">> }
        Batches == UNION { [1..n -> ArgInputs] : n \in 0..MaxBatch }
    IN  /\ InitRestOfCall
        /\ callPhase = "input"
        /\ callIn \in Batches
        /\ callOut = <<>>

\* validateCommandArgs(callIn)
Validate ==
    /\ callPhase = "input"
    /\ callPhase' = "returned"
    /\ callOut' = <<ValidateCommandArgs(callIn)>>
    /\ UNCHANGED callIn
    /\ UNCHANGED <<storeVars, argVars, supVars, chunkVars, utilVars>>

SpecValidate == InitValidate /\ [][Validate]_vars

-----------------------------------------------------------------------------
(* SpecSanitize: sanitizeUrl called on a string, then on its own result *)

MaxTextLen == 5

\* A percent-parenthesis placeholder of the output template: %(title)s
Placeholder == <<"%", "(", "title", ")", "s">>

InitSanitize ==
    LET TextPieces == {"%", "(", "title", ")", "s", ";"}
        Texts == UNION { [1..n -> TextPieces] : n \in 0..MaxTextLen }
    IN  /\ InitRestOfCall
        /\ callPhase = "input"
        /\ callIn \in Texts
        /\ callOut = <<>>

\* sanitizeUrl(callIn)
SanitizeOnce ==
    /\ callPhase = "input"
    /\ callPhase' = "once"
    /\ callOut' = <<SanitizeUrl(callIn)>>
    /\ UNCHANGED callIn
    /\ UNCHANGED <<storeVars, argVars, supVars, chunkVars, utilVars>>

\* sanitizeUrl(sanitizeUrl(callIn))
SanitizeAgain ==
    /\ callPhase = "once"
    /\ callPhase' = "twice"
    /\ callOut' = Append(callOut, SanitizeUrl(callOut[1]))
    /\ UNCHANGED callIn
    /\ UNCHANGED <<storeVars, argVars, supVars, chunkVars, utilVars>>

NextSanitize == SanitizeOnce \/ SanitizeAgain

SpecSanitize == InitSanitize /\ [][NextSanitize]_vars

-----------------------------------------------------------------------------
(* SpecUrl: validateSoundCloudUrl called on one URL *)

MaxSegments == 3

InitUrl ==
    LET \* "/" + segment for each segment
        RECURSIVE PathOf(_)
        PathOf(segs) ==
            IF segs = <<>> THEN <<>> ELSE <<"/">> \o Head(segs) \o PathOf(Tail(segs))
    IN  LET \* A URL with the parts it was written from
            UrlOf(host, segs, slash, query) ==
                [host |-> host, segs |-> segs, slash |-> slash,
                 url |-> <<"https:", "//", host>> \o PathOf(segs)
                         \o (IF slash THEN <<"/">> ELSE <<>>) \o query]
        IN  LET \* The hosts of the URLs: three of validDomains, a foreign host, and " " for
                \* a string new URL does not accept
                HostInputs == {"soundcloud.com", "m.soundcloud.com", "on.soundcloud.com", "example.com", " "}
                \* The path segments of the URLs; <<"discover", "er">> is "discoverer", and
                \* <<>> the empty segment of "//"
                SegmentInputs ==
                    { <<"artist">>, <<"sets">>, <<"albums">>, <<"discover">>, <<"discover", "er">>,
                      <<"search">>, <<"explore">>, <<>> }
                QueryInputs == { <<>>, <<"?", "ref=x", "&", "si=1">> }
                UrlCalls ==
                    { UrlOf(host, segs, slash, query) :
                        host \in HostInputs,
                        segs \in UNION { [1..n -> SegmentInputs] : n \in 0..MaxSegments },
                        slash \in BOOLEAN,
                        query \in QueryInputs }
            IN  /\ InitRestOfCall
                /\ callPhase = "input"
                /\ callIn \in UrlCalls
                /\ callOut = <<>>

\* validateSoundCloudUrl(callIn.url)
ValidateUrl ==
    /\ callPhase = "input"
    /\ callPhase' = "returned"
    /\ callOut' = <<ValidateSoundCloudUrl(callIn.url)>>
    /\ UNCHANGED callIn
    /\ UNCHANGED <<storeVars, argVars, supVars, chunkVars, utilVars>>

SpecUrl == InitUrl /\ [][ValidateUrl]_vars

-----------------------------------------------------------------------------
(* SpecPath: validateAndSanitizePath called on one absolute path *)

MaxPathSegments == 4

InitPath ==
    LET \* The segments of the paths; <<"me", "2">> is the name "me2"
        PathSegmentInputs ==
            { <<"Users">>, <<"me">>, <<"me", "2">>, <<"Downloads">>, <<"etc">>, <<".">>, <<"..">> }
        \* The absolute paths of the calls, and the empty string
        AbsolutePaths ==
            { <<>>, <<"/">> } \cup
            { JoinSegments(segs) : segs \in UNION { [1..n -> PathSegmentInputs] : n \in 1..MaxPathSegments } }
    IN  /\ InitRestOfCall
        /\ callPhase = "input"
        /\ callIn \in AbsolutePaths
        /\ callOut = <<>>

\* validateAndSanitizePath(callIn)
ValidatePath ==
    /\ callPhase = "input"
    /\ callPhase' = "returned"
    /\ callOut' = <<ValidateAndSanitizePath(callIn)>>
    /\ UNCHANGED callIn
    /\ UNCHANGED <<storeVars, argVars, supVars, chunkVars, utilVars>>

SpecPath == InitPath /\ [][ValidatePath]_vars

-----------------------------------------------------------------------------
(* SpecParse: parseProgress called on one per-file progress line *)

InitParse ==
    LET \* A progress line with the parts it was written from
        ProgressLineOf(gap, pct, total, speed, eta) ==
            [pct |-> pct, total |-> total, speed |-> speed, eta |-> eta,
             text |-> <<"[download]">> \o gap \o pct.whole
                      \o (IF pct.frac = <<>> THEN <<>> ELSE <<".">> \o pct.frac)
                      \o <<"%", " ", "of", " ">> \o total \o <<" ", "at", " ">> \o speed
                      \o (IF eta = <<>> THEN <<>> ELSE <<" ", "ETA", " ">> \o eta)]
    IN  LET \* The percentages of the lines, with the numbers they denote; the last has
            \* no decimals
            PercentInputs ==
                { [whole |-> <<"4", "5">>, frac |-> <<"5">>, value |-> [m |-> 455, e |-> 1]],
                  [whole |-> <<"1", "0", "0">>, frac |-> <<"0">>, value |-> [m |-> 100, e |-> 0]],
                  [whole |-> <<"3">>, frac |-> <<"2", "5">>, value |-> [m |-> 325, e |-> 2]],
                  [whole |-> <<"1", "0", "0">>, frac |-> <<>>, value |-> [m |-> 100, e |-> 0]] }
            \* The total sizes; the last is an estimate, "~5.67MiB"
            TotalInputs ==
                { <<"5", ".", "6", "7", "MiB">>, <<"1", "2", "KiB">>, <<"~", "5", ".", "6", "7", "MiB">> }
            \* The speeds; the last is "Unknown B/s"
            SpeedInputs ==
                { <<"1", ".", "2", "3", "MiB", "/", "s">>, <<"Unknown", " ", "B", "/", "s">> }
            \* The ETAs: none, two of the form MM:SS, one with hours, and "Unknown"
            EtaInputs ==
                { <<>>, <<"0", "0", ":", "0", "3">>, <<"1", "2", ":", "3", "4">>,
                  <<"0", "1", ":", "0", "2", ":", "0", "3">>, <<"Unknown">> }
            GapInputs == { <<" ">>, <<" ", " ">> }
            ProgressCalls ==
                { ProgressLineOf(gap, pct, total, speed, eta) :
                    gap \in GapInputs, pct \in PercentInputs, total \in TotalInputs,
                    speed \in SpeedInputs, eta \in EtaInputs }
        IN  /\ InitRestOfCall
            /\ callPhase = "input"
            /\ callIn \in ProgressCalls
            /\ callOut = <<>>

\* parseProgress(callIn.text)
Parse ==
    /\ callPhase = "input"
    /\ callPhase' = "returned"
    /\ callOut' = <<ParseProgress(LineMatches(callIn.text))>>
    /\ UNCHANGED callIn
    /\ UNCHANGED <<storeVars, argVars, supVars, chunkVars, utilVars>>

SpecParse == InitParse /\ [][Parse]_vars

-----------------------------------------------------------------------------
(* SpecLine: the stdout handler's loop body run on one line *)

InitLine ==
    LET \* The parts a line is written from, each with the shapes of the
        \* parser's description it has: 1 per-file progress, 2 collection
        \* position, 3 webpage fetch, 4 embedded JSON, 5 file announcement
        Heads ==
            { [text |-> <<>>, shapes |-> {}],
              [text |-> <<"hello">>, shapes |-> {}],
              [text |-> ProgressLine, shapes |-> {1}],
              [text |-> <<"[download]", " ", "Downloading", " ", "video", " ", "2", " ", "of", " ", "5">>,
               shapes |-> {2}],
              [text |-> <<"[download]", " ", "Downloading", " ", "item", " ", "5", " ", "of", " ", "6", "7">>,
               shapes |-> {2}],
              [text |-> <<"[info]", " ", "artist", ":", " ", "Downloading", " ", "webpage">>,
               shapes |-> {3}],
              [text |-> <<"[info]", " ", "artist", ":", " ", "Downloading", " ", "webpage", " ",
                          "[download]", " ", "Downloading", " ", "video", " ", "2", " ", "of", " ", "5">>,
               shapes |-> {2, 3}] }
        Jsons ==
            { [text |-> <<>>, shapes |-> {}],
              [text |-> <<"{", "\"title\"", ":", " ", "\"T\"", ",", " ", "\"uploader\"", ":", " ", "\"U\"", "}">>,
               shapes |-> {4}],
              [text |-> <<"{", "\"title\"", ":", "\"T\"", "}">>, shapes |-> {}],
              [text |-> <<"{", "\"title\"", "\"uploader\"", "}">>, shapes |-> {}] }
        Tails ==
            { [text |-> <<>>, shapes |-> {}, file |-> <<>>],
              [text |-> <<"[download]", " ", "a.mp3", " ", "has", " ", "already", " ", "been", " ", "downloaded">>,
               shapes |-> {5}, file |-> <<"a.mp3">>],
              [text |-> <<"[download]", " ", "1", "0", "0", "%", " ", "of", " ", "5", ".", "6", "7", "MiB">>,
               shapes |-> {}, file |-> <<>>],
              [text |-> <<"[ffmpeg]", " ", "Destination", ":", " ", "a.mp3">>,
               shapes |-> {5}, file |-> <<"a.mp3">>],
              [text |-> <<"[download]", " ", "1", "0", "0", "%", " ", "[ffmpeg]", " ", "Destination", ":", " ", "b.mp3">>,
               shapes |-> {5}, file |-> <<"b.mp3">>] }
        Join(a, b) == IF a = <<>> THEN b ELSE IF b = <<>> THEN a ELSE a \o <<" ">> \o b
    IN  /\ InitRestOfCall
        /\ callPhase = "input"
        /\ callIn \in { [text |-> Join(Join(h.text, j.text), t.text),
                         shapes |-> h.shapes \cup j.shapes \cup t.shapes,
                         file |-> t.file,
                         files |-> files] :
                        h \in Heads, j \in Jsons, t \in Tails,
                        files \in {<<>>, <<"a.mp3">>} }
        /\ callOut = <<>>

\* The loop body of the stdout handler on the line callIn.text, in a closure
\* whose downloadedFiles is callIn.files: callOut is its updates, in order
HandleLine ==
    /\ callPhase = "input"
    /\ callPhase' = "returned"
    /\ callOut' = StdoutLine([us |-> <<>>, cp |-> InitialProgress, ti |-> Null,
                              files |-> callIn.files], LineOf(callIn.text)).us
    /\ UNCHANGED callIn
    /\ UNCHANGED <<storeVars, argVars, supVars, chunkVars, utilVars>>

SpecLine == InitLine /\ [][HandleLine]_vars

-----------------------------------------------------------------------------
(* SpecVector: the argument vector built for one request *)

InitVector ==
    /\ InitRestOfCall
    /\ callPhase = "input"
    /\ callIn \in [settings : [quality : {"high", "medium", "low"},
                               downloadPath : {HomeDir \o <<"/", "Downloads", "/", "SoundCloud">>},
                               openInAppleMusic : BOOLEAN,
                               embedThumbnail : BOOLEAN,
                               addMetadata : BOOLEAN],
                   sanitizedUrl : { <<"https:", "//", "soundcloud.com", "/", "artist", "/", "track">>,
                                    <<"https:", "//", "soundcloud.com", "/", "artist", "/", "sets", "/", "mix">> },
                   isPlaylist : BOOLEAN]
    /\ callOut = <<>>

\* executeBackgroundDownload's argument construction for the request callIn
BuildVectorOnce ==
    /\ callPhase = "input"
    /\ callPhase' = "returned"
    /\ callOut' = BuildArgs(callIn.settings, callIn.sanitizedUrl,
                            callIn.settings.downloadPath, callIn.isPlaylist)
    /\ UNCHANGED callIn
    /\ UNCHANGED <<storeVars, argVars, supVars, chunkVars, utilVars>>

SpecVector == InitVector /\ [][BuildVectorOnce]_vars

-----------------------------------------------------------------------------
(* utils/performance.ts: ProcessManager.  SpecProcesses: its methods called  *)
(* and its promise-like processes settling, in any order.  A process is its  *)
(* number in procs, the processes ever added in the order of the addProcess  *)
(* calls: [id, thenable, killed, settled].                                   *)

MaxProcs == 3

\* killProcess(id) on pm = [processes, procs]: the tracked process is sent
\* kill or cancel and its entry deleted, also when kill throws
KillProcess(pm, id) ==
    IF id \in DOMAIN pm.processes
    THEN [processes |-> [x \in (DOMAIN pm.processes) \ {id} |-> pm.processes[x]],
          procs |-> [pm.procs EXCEPT ![pm.processes[id]].killed = TRUE]]
    ELSE pm

\* addProcess(id, process) with a process not added before
AddProcess(id, thenable) ==
    /\ Len(procs) < MaxProcs
    /\ LET pm == KillProcess([processes |-> processes, procs |-> procs], id)
           p  == Len(procs) + 1
       IN  /\ processes' = [x \in (DOMAIN pm.processes) \cup {id} |->
                               IF x = id THEN p ELSE pm.processes[x]]
           /\ procs' = Append(pm.procs, [id |-> id, thenable |-> thenable,
                                         killed |-> FALSE, settled |-> FALSE])
    /\ UNCHANGED <<requests, clock, granted>>
    /\ UNCHANGED <<storeVars, argVars, supVars, chunkVars, callVars>>

\* killProcess(id), called from outside
KillProcessCall(id) ==
    /\ LET pm == KillProcess([processes |-> processes, procs |-> procs], id)
       IN  /\ processes' = pm.processes
           /\ procs' = pm.procs
    /\ UNCHANGED <<requests, clock, granted>>
    /\ UNCHANGED <<storeVars, argVars, supVars, chunkVars, callVars>>

\* The promise of process p settles, whether p was killed or not, and the
\* callback of its finally runs
ProcessSettles(p) ==
    /\ p \in 1..Len(procs)
    /\ procs[p].thenable
    /\ ~procs[p].settled
    /\ procs' = [procs EXCEPT ![p].settled = TRUE]
    /\ LET \* The callback addProcess handed to process.finally:
           \* this.processes.delete(id), with the id of the addProcess call
           FinallyCallback ==
               [x \in (DOMAIN processes) \ {procs[p].id} |-> processes[x]]
       IN  processes' = FinallyCallback
    /\ UNCHANGED <<requests, clock, granted>>
    /\ UNCHANGED <<storeVars, argVars, supVars, chunkVars, callVars>>

NextProcesses ==
    \/ \E id \in {"dl1", "dl2"}, thenable \in BOOLEAN : AddProcess(id, thenable)
    \/ \E id \in {"dl1", "dl2"} : KillProcessCall(id)
    \/ \E p \in 1..MaxProcs : ProcessSettles(p)

SpecProcesses == Init /\ [][NextProcesses]_vars

-----------------------------------------------------------------------------
(* utils/security.ts: RateLimiter.  SpecRate: one limiter, constructed with  *)
(* maxRequests = MaxRequests and windowMs = WindowMs, whose canMakeRequest   *)
(* is called at any times as the clock advances.                             *)

MaxRequests == 2

WindowMs == 3

MaxClock == 7

\* Date.now() advances by a millisecond
ClockAdvances ==
    /\ clock < MaxClock
    /\ clock' = clock + 1
    /\ UNCHANGED <<processes, procs, requests, granted>>
    /\ UNCHANGED <<storeVars, argVars, supVars, chunkVars, callVars>>

CanMakeRequestOneMore ==
    /\ LET kept == SelectSeq(requests, LAMBDA ts : clock - ts < WindowMs)
       IN  IF Len(kept) <= MaxRequests
           THEN /\ requests' = Append(kept, clock)
                /\ granted' = Append(granted, clock)
           ELSE /\ requests' = kept
                /\ UNCHANGED granted
    /\ UNCHANGED <<processes, procs, clock>>
    /\ UNCHANGED <<storeVars, argVars, supVars, chunkVars, callVars>>

\* canMakeRequest(): the call returns true exactly when it appends to granted
CanMakeRequest ==
    /\ LET kept == SelectSeq(requests, LAMBDA ts : clock - ts < WindowMs)
       IN  IF Len(kept) < MaxRequests
           THEN /\ requests' = Append(kept, clock)
                /\ granted' = Append(granted, clock)
           ELSE /\ requests' = kept
                /\ UNCHANGED granted
    /\ UNCHANGED <<processes, procs, clock>>
    /\ UNCHANGED <<storeVars, argVars, supVars, chunkVars, callVars>>

NextRate ==
    \/ ClockAdvances
    \/ CanMakeRequest

SpecRate == Init /\ [][NextRate]_vars

-----------------------------------------------------------------------------
(* SpecStore: the store API called by arbitrary callers *)

MaxUpdates == 3

\* The partial updates the callers of SpecStore pass
Updates ==
    { [isActive |-> TRUE, error |-> Null],
      [error |-> <<"Download error", 1>>],
      [isActive |-> FALSE, isCompleted |-> TRUE, downloadedFiles |-> <<"f1">>] }

RECURSIVE TotalLen(_, _)
TotalLen(f, S) ==
    IF S = {} THEN 0
    ELSE LET x == CHOOSE y \in S : TRUE IN Len(f[x]) + TotalLen(f, S \ {x})

InitStore ==
    InitStoreVars /\ InitArgsIdle /\ InitSupVars /\ InitChunksIdle /\ InitCallIdle /\ InitUtilsIdle

\* update(id, partial)
Update(id, u) ==
    /\ TotalLen(applied, OpIds) < MaxUpdates
    /\ LET w == UpdateOperationState([ops |-> globalOperations, dl |-> delivered],
                                     globalListeners, id, u)
       IN  /\ globalOperations' = w.ops
           /\ delivered' = w.dl
    /\ applied' = [applied EXCEPT ![id] = Append(@, u)]
    /\ UNCHANGED <<globalListeners, snapshot, subAt>>
    /\ UNCHANGED <<argVars, supVars, chunkVars, callVars, utilVars>>

\* subscribe(id, cb)
Subscribe(id, cb) ==
    /\ globalListeners' = AddListener(globalListeners, id, cb)
    /\ snapshot' = [snapshot EXCEPT ![id][cb] = SnapshotFor(globalOperations, id)]
    /\ delivered' = [delivered EXCEPT ![id][cb] = <<>>]
    /\ subAt' = [subAt EXCEPT ![id][cb] = Len(applied[id])]
    /\ UNCHANGED <<globalOperations, applied>>
    /\ UNCHANGED <<argVars, supVars, chunkVars, callVars, utilVars>>

\* A call of the unsubscribe function an earlier subscribe(id, cb) returned
Unsubscribe(id, cb) ==
    /\ subAt[id][cb] >= 0
    /\ globalListeners' = RemoveListener(globalListeners, id, cb)
    /\ UNCHANGED <<globalOperations, delivered, snapshot, subAt, applied>>
    /\ UNCHANGED <<argVars, supVars, chunkVars, callVars, utilVars>>

NextStore ==
    \/ \E id \in OpIds, u \in Updates : Update(id, u)
    \/ \E id \in OpIds, cb \in Callbacks : Subscribe(id, cb)
    \/ \E id \in OpIds, cb \in Callbacks : Unsubscribe(id, cb)

SpecStore == InitStore /\ [][NextStore]_vars

\* SpecHandles: the store called by arbitrary callers, with the unsubscribe
\* functions the subscribe calls returned kept in callOut, in the order of
\* the calls: [id, cb, called].  The subscribe calls are those on one id.
MaxHandles == 3

\* subscribeToOperation(id, cb); its result is the handle Len(callOut) + 1
SubscribeCall(id, cb) ==
    /\ Len(callOut) < MaxHandles
    /\ globalListeners' = AddListener(globalListeners, id, cb)
    /\ snapshot' = [snapshot EXCEPT ![id][cb] = SnapshotFor(globalOperations, id)]
    /\ delivered' = [delivered EXCEPT ![id][cb] = <<>>]
    /\ subAt' = [subAt EXCEPT ![id][cb] = Len(applied[id])]
    /\ callOut' = Append(callOut, [id |-> id, cb |-> cb, called |-> FALSE])
    /\ UNCHANGED <<globalOperations, applied, callPhase, callIn>>
    /\ UNCHANGED <<argVars, supVars, chunkVars, utilVars>>

\* A call, the first or a later one, of the unsubscribe function h
UnsubscribeHandle(h) ==
    /\ h \in 1..Len(callOut)
    /\ globalListeners' = RemoveListener(globalListeners, callOut[h].id, callOut[h].cb)
    /\ callOut' = [callOut EXCEPT ![h].called = TRUE]
    /\ UNCHANGED <<globalOperations, delivered, snapshot, subAt, applied, callPhase, callIn>>
    /\ UNCHANGED <<argVars, supVars, chunkVars, utilVars>>

NextHandles ==
    \/ \E id \in OpIds, u \in Updates : Update(id, u)
    \/ \E cb \in Callbacks : SubscribeCall(IdOrder[1], cb)
    \/ \E h \in 1..MaxHandles : UnsubscribeHandle(h)

SpecHandles == InitStore /\ [][NextHandles]_vars

\* SpecMerge: the store driven by update calls alone, with every partial
\* update over three keys
PartialValues ==
    [isActive |-> BOOLEAN,
     error |-> {Null, <<"Download error", 1>>},
     isCompleted |-> {TRUE}]

Partials ==
    LET \* The partial updates with key k or no key
        PartsOf(k) == {<<>>} \cup {k :> v : v \in PartialValues[k]}
    IN  { a @@ e @@ c : a \in PartsOf("isActive"), e \in PartsOf("error"),
                        c \in PartsOf("isCompleted") }

NextMerge == \E id \in OpIds, u \in Partials : Update(id, u)

SpecMerge == InitStore /\ [][NextMerge]_vars

\* SpecFrame: the supervisor of the first operation together with store
\* calls on any id
MaxDelivered == 2

MaxFrameUpdates == 1

\* The stdout lines of SpecFrame: a progress line and an already-downloaded line
FrameLines ==
    { line \in StdoutLines :
        \/ line.downloadMatch # <<>>
        \/ line.alreadyMatch = Some("a.mp3") }

\* The step A, when it keeps the bounds
WithinFrameBound(A) ==
    LET FrameBound ==
            /\ TotalLen(applied, OpIds) <= MaxFrameUpdates
            /\ \A id \in OpIds, cb \in Callbacks : Len(delivered[id][cb]) <= MaxDelivered
    IN  A /\ FrameBound'

NextFrame ==
    \/ \E id \in OpIds, u \in Updates : WithinFrameBound(Update(id, u))
    \/ \E id \in OpIds, cb \in {"cb1"} : WithinFrameBound(Subscribe(id, cb))
    \/ \E id \in OpIds, cb \in {"cb1"} : WithinFrameBound(Unsubscribe(id, cb))
    \/ \E url \in UrlInputs, settings \in SettingsInputs :
          /\ settings.quality = "high" /\ settings.embedThumbnail
          /\ settings.openInAppleMusic
          /\ WithinFrameBound(HandleDownload(url, settings))
    \/ \E id \in OpIds, outcome \in {"running", "failing"} :
          WithinFrameBound(ExecuteBackgroundDownload(id, TRUE, outcome))
    \/ \E id \in OpIds : WithinFrameBound(TimerTick(id))
    \/ \E id \in OpIds, line \in FrameLines : WithinFrameBound(StdoutData(id, <<line>>))
    \/ \E id \in OpIds, chunk \in StderrChunks :
          chunk.text = 1 /\ WithinFrameBound(StderrData(id, chunk))
    \/ \E id \in OpIds, code \in ExitCodes \cup SpawnErrnos :
          WithinFrameBound(ProcClose(id, code))
    \/ \E id \in OpIds, opened \in BOOLEAN :
          WithinFrameBound(ProcCloseAfterToast(id, opened))
    \/ \E id \in OpIds, errno \in SpawnErrnos : WithinFrameBound(ProcError(id, errno))

SpecFrame == Init /\ [][NextFrame]_vars

\* The state that merging the first n partial updates applied to id, in call
\* order, onto the zero-value state gives.
RECURSIVE Replay(_, _)
Replay(us, n) == IF n = 0 THEN DefaultState ELSE Merge(Replay(us, n - 1), us[n])

-----------------------------------------------------------------------------
(* C1: every update hands each callback registered at the time of the call  *)
(* the new merged state exactly once, so a registered callback has received *)
(* the merged states of all updates since it subscribed, each once and in   *)
(* the order update was called.                                             *)
C1_UpdatesDeliveredInOrder ==
    \A id \in OpIds : \A cb \in ListenersOf(globalListeners, id) :
        delivered[id][cb] =
            [i \in 1..(Len(applied[id]) - subAt[id][cb]) |->
                Replay(applied[id], subAt[id][cb] + i)]

C1_Witness ==
    \E id \in OpIds :
        /\ ListenersOf(globalListeners, id) = Callbacks
        /\ \E cb \in Callbacks : Len(delivered[id][cb]) >= 2
        /\ \E cb \in Callbacks :
              /\ Len(delivered[id][cb]) >= 1
              /\ Len(delivered[id][cb]) < Len(applied[id])

(* C2: subscribe hands the callback exactly one state, the merge of all N   *)
(* updates applied so far onto the zero-value state, when N >= 1, and       *)
(* nothing when no update has been applied.                                 *)
C2_SubscribeDeliversSnapshot ==
    \A id \in OpIds : \A cb \in Callbacks :
        subAt[id][cb] >= 0 =>
            snapshot[id][cb] =
                IF subAt[id][cb] >= 1
                THEN <<Replay(applied[id], subAt[id][cb])>>
                ELSE <<>>

C2_Witness ==
    \E id \in OpIds : \E cb1 \in Callbacks, cb2 \in Callbacks :
        /\ subAt[id][cb1] >= 2
        /\ snapshot[id][cb1] # <<DefaultState>>
        /\ subAt[id][cb2] = 0

(* C3: after the child closed with code 0, or with any code while at least  *)
(* one file had been detected, the state is inactive and completed with the *)
(* accumulated file list, and the dispatcher was called once with the list. *)
C3_SuccessCloseDispatches ==
    \A id \in OpIds :
        LET l == sup[id]
            st == StateOf(globalOperations, id)
        IN  (l.child = "closed"
                /\ (l.exitCode = Some(0) \/ Len(l.downloadedFiles) >= 1)) =>
                /\ st.isActive = FALSE
                /\ st.isCompleted = TRUE
                /\ st.downloadedFiles = l.downloadedFiles
                /\ obs[id].dispatched = <<l.downloadedFiles>>

(* C3, amended: as C3, but the dispatcher is called with the list only when *)
(* the open-in-Apple-Music setting is on and the list is not empty, and is  *)
(* not called otherwise.                                                    *)
C3_SuccessCloseDispatchesWhenEnabled ==
    \A id \in OpIds :
        LET l == sup[id]
            st == StateOf(globalOperations, id)
        IN  (l.child = "closed"
                /\ (l.exitCode = Some(0) \/ Len(l.downloadedFiles) >= 1)) =>
                /\ st.isActive = FALSE
                /\ st.isCompleted = TRUE
                /\ st.downloadedFiles = l.downloadedFiles
                /\ obs[id].dispatched =
                      IF l.openInAppleMusic /\ Len(l.downloadedFiles) >= 1
                      THEN <<l.downloadedFiles>> ELSE <<>>

C3_Witness ==
    \E id \in OpIds :
        /\ sup[id].child = "closed"
        /\ sup[id].exitCode = Some(1)
        /\ Len(sup[id].downloadedFiles) = 2
        /\ obs[id].dispatched = <<sup[id].downloadedFiles>>

(* C4: after the child closed with a non-zero code and no file had been     *)
(* detected, the state is inactive, its error names the exit code, it is    *)
(* not completed, and the dispatcher was not called.                        *)
C4_FailureClose ==
    \A id \in OpIds :
        LET l == sup[id]
            st == StateOf(globalOperations, id)
        IN  (l.child = "closed" /\ l.exitCode # Some(0)
                /\ l.downloadedFiles = <<>>) =>
                /\ st.isActive = FALSE
                /\ st.error = <<"Download failed with exit code", l.exitCode[1]>>
                /\ st.isCompleted = FALSE
                /\ obs[id].dispatched = <<>>

C4_Witness ==
    \E id \in OpIds :
        /\ sup[id].child = "closed"
        /\ sup[id].exitCode = Some(1)
        /\ sup[id].downloadedFiles = <<>>
        /\ sup[id].openInAppleMusic
        /\ sup[id].trackInfo # Null

(* C5: for every preset, both values of isPlaylist and every URL and output *)
(* path validateCommandArgs accepts, the built vector passes the final      *)
(* check, so the operation spawns the child instead of failing in setup.    *)
C5_BuiltVectorAccepted ==
    argPhase \in {"spawn", "setupFailed"} =>
        /\ argCheck.isValid
        /\ argPhase = "spawn"

(* C6: when ERROR diagnostics were reported on stderr and the child exited  *)
(* 0 with k >= 1 files detected, the final state is completed, inactive,    *)
(* has the error derived from the last ERROR diagnostic and k files.        *)
C6_PartialSuccessKeepsLastError ==
    \A id \in OpIds :
        LET l == sup[id]
            st == StateOf(globalOperations, id)
        IN  (l.child = "closed" /\ l.exitCode = Some(0)
                /\ Len(l.downloadedFiles) >= 1 /\ obs[id].lastError # <<>>) =>
                /\ st.isCompleted = TRUE
                /\ st.isActive = FALSE
                /\ st.error = <<"Download error", obs[id].lastError[1]>>
                /\ Len(st.downloadedFiles) = Len(l.downloadedFiles)

(* C7: while the child runs, the error field holds the text of the last     *)
(* ERROR diagnostic received on stderr, and the operation stays active and  *)
(* not completed: no stdout, stderr or timer handler ends it.               *)
C7_ErrorDiagnosticNotFatal ==
    \A id \in OpIds :
        LET st == StateOf(globalOperations, id)
        IN  sup[id].child = "running" =>
                /\ st.isActive = TRUE
                /\ st.isCompleted = FALSE
                /\ obs[id].lastError # <<>> =>
                      st.error = <<"Download error", obs[id].lastError[1]>>

(* C8: once an operation has ended, by the child's close, by its launch     *)
(* error or by an exception during setup, its elapsed-time timer is         *)
(* cancelled, so no tick can publish an update for it.                      *)
C8_TimerCancelledOnEveryExit ==
    \A id \in OpIds :
        (sup[id].pc = "setupFailed" \/ sup[id].child \in {"errored", "closing", "closed"}) =>
            ~sup[id].timer

C8_Witness ==
    \E id \in OpIds :
        /\ sup[id].child = "closed"
        /\ obs[id].clearIntervals >= 1
        /\ StateOf(globalOperations, id).progress.elapsedTime = Some(<<0, 1>>)

(* C9: whatever close and error events one child delivers, the timer is     *)
(* cancelled once and one handler only makes the terminal update.           *)
C9_OneExitPath ==
    \A id \in OpIds :
        /\ obs[id].clearIntervals <= 1
        /\ obs[id].terminalUpdates <= 1

C11_SpawnOnlyAfterValidation ==
    LET url  == argReq.url
        path == argReq.settings.downloadPath
    IN  /\ argPhase \in {"accepted", "built", "spawn", "setupFailed"} =>
              /\ Trim(url) # <<>>
              /\ IsValidSoundCloudUrl(url)
              /\ ValidateCommandArgs(<<url>>).isValid
              /\ ValidateCommandArgs(<<path>>).isValid
        /\ argPhase = "spawn" => ValidateCommandArgs(argv).isValid

C11_Witness ==
    /\ argPhase = "setupFailed"
    /\ \E i \in 1..Len(argv) : HasDangerousPattern(argv[i])
    /\ ~HasDangerousPattern(argReq.settings.downloadPath)

(* C12: an operation whose child could not be launched (spawn threw, or the *)
(* child emitted 'error') ends inactive, not completed, and with an error   *)
(* message that names the launch failure.                                   *)
C12_LaunchFailureReported ==
    \A id \in OpIds :
        LET l  == sup[id]
            st == StateOf(globalOperations, id)
        IN  (\/ l.pc = "setupFailed" /\ l.argsValid
             \/ l.child = "errored"
             \/ l.child \in {"closing", "closed"} /\ l.exitCode[1] \in SpawnErrnos) =>
                /\ st.isActive = FALSE
                /\ st.isCompleted = FALSE
                /\ st.error \in {<<"spawn", 0>>}
                                \cup {<<"Process error", e>> : e \in SpawnErrnos}

(* C13: a request that ended with a validation error was both reported to   *)
(* the caller of handleDownload as failed and recorded in the state of an   *)
(* operation as isActive=false with the error set.                          *)
C13_ValidationErrorSurfacedAndRecorded ==
    argPhase \in {"rejected", "setupFailed"} =>
        /\ argResult = "failed"
        /\ \E id \in DOMAIN globalOperations :
              /\ globalOperations[id].isActive = FALSE
              /\ globalOperations[id].error # Null

(* C14: however the stdout stream is cut into chunks, once all of it is     *)
(* delivered the lines handed to the parser are the non-blank complete      *)
(* lines of the whole stream, each once and whole.                          *)
C14_LinesIndependentOfChunking ==
    stdoutRead = Len(stdoutStream) =>
        parsedLines = SelectSeq(CompleteLines(stdoutStream), NonBlank)

(* C15: every file path carried by a file-bearing stdout line received so   *)
(* far (an already-downloaded line or a destination announcement) is in the *)
(* operation's downloadedFiles, in the closure and in the published state.  *)
C15_FileLinesAppend ==
    \A id \in OpIds :
        sup[id].child = "running" =>
            \A f \in obs[id].announced :
                /\ \E i \in 1..Len(sup[id].downloadedFiles) :
                      sup[id].downloadedFiles[i] = f
                /\ \E i \in 1..Len(StateOf(globalOperations, id).downloadedFiles) :
                      StateOf(globalOperations, id).downloadedFiles[i] = f

(* C16: every downloadedFiles list an operation publishes holds no path     *)
(* twice and extends the list published before it (the first one extends    *)
(* the empty list of the zero-value state).                                 *)
C16_FilesAppendOnly ==
    \A id \in OpIds :
        LET pub == obs[id].published
        IN  \A n \in 1..Len(pub) :
                /\ \A i, j \in 1..Len(pub[n]) : pub[n][i] = pub[n][j] => i = j
                /\ n > 1 =>
                      /\ Len(pub[n - 1]) <= Len(pub[n])
                      /\ SubSeq(pub[n], 1, Len(pub[n - 1])) = pub[n - 1]

C16_Witness ==
    \E id \in OpIds :
        /\ sup[id].child = "closed"
        /\ Len(obs[id].published) = 3
        /\ Len(obs[id].published[3]) = 2
        /\ obs[id].announced = {"a.mp3", "b.mp3"}

(* C17: the listener registry never holds an id with an empty callback set: *)
(* the unsubscribe that removes an id's last callback removes its entry.    *)
C17_NoEmptyListenerSet ==
    \A id \in DOMAIN globalListeners : globalListeners[id] # {}

C17_Witness ==
    \E id \in OpIds :
        /\ \A cb \in Callbacks : subAt[id][cb] >= 0
        /\ id \notin DOMAIN globalListeners
        /\ DOMAIN globalListeners # {}

(* C18: when the last two updates of an id, p and then q, have disjoint key *)
(* sets, the stored state is the one a single update with p and q merged    *)
(* gives on the state before them (the zero-value state if there was none). *)
C18_DisjointUpdatesMerge ==
    \A id \in OpIds :
        LET us == applied[id]
            n  == Len(us)
        IN  (n >= 2 /\ (DOMAIN us[n - 1]) \cap (DOMAIN us[n]) = {}) =>
                LET before == IF n = 2 THEN <<>>
                              ELSE (id :> Replay(us, n - 2))
                    once   == UpdateOperationState([ops |-> before, dl |-> delivered],
                                                   globalListeners, id,
                                                   us[n - 1] @@ us[n])
                IN  globalOperations[id] = once.ops[id]

C18_Witness ==
    \E id \in OpIds :
        /\ Len(applied[id]) = 3
        /\ DOMAIN applied[id][1] = DOMAIN PartialValues
        /\ DOMAIN applied[id][2] = {"error"}
        /\ DOMAIN applied[id][3] = {"isActive", "isCompleted"}
        /\ globalOperations[id].isActive # applied[id][1].isActive

(* C19: no step removes an operation's entry from the registry: an id that  *)
(* has a state before a step has one after it.                              *)
C19_StatesRetained ==
    [][(DOMAIN globalOperations) \subseteq (DOMAIN globalOperations')]_vars

C19_Witness ==
    /\ DOMAIN globalOperations = OpIds
    /\ DOMAIN globalListeners = {}
    /\ \E id \in OpIds, cb \in Callbacks : subAt[id][cb] >= 1

(* C20: a step that acts on one operation id (a store call on it, or an     *)
(* event of its supervisor) leaves every other id's stored state and        *)
(* subscriber set unchanged and hands no state to a callback registered     *)
(* for another id.                                                          *)
C20_OtherIdsUntouched ==
    [][\A A, B \in OpIds :
          LET Entry(m, id) == IF id \in DOMAIN m THEN <<m[id]>> ELSE <<>>
              ActsOn(id) ==
                  \/ sup'[id] # sup[id] \/ obs'[id] # obs[id]
                  \/ applied'[id] # applied[id] \/ subAt'[id] # subAt[id]
                  \/ Entry(globalOperations', id) # Entry(globalOperations, id)
                  \/ Entry(globalListeners', id) # Entry(globalListeners, id)
                  \/ delivered'[id] # delivered[id]
                  \/ snapshot'[id] # snapshot[id]
          IN  (A # B /\ ActsOn(A)) =>
                  /\ Entry(globalOperations', B) = Entry(globalOperations, B)
                  /\ Entry(globalListeners', B) = Entry(globalListeners, B)
                  /\ delivered'[B] = delivered[B]
                  /\ snapshot'[B] = snapshot[B]]_vars

C20_Witness ==
    \E A, B \in OpIds :
        /\ A # B
        /\ sup[A].child = "closed"
        /\ \E cb \in Callbacks : Len(delivered[A][cb]) = MaxDelivered
        /\ B \in DOMAIN globalOperations
        /\ \E cb \in Callbacks :
              cb \in ListenersOf(globalListeners, B) /\ Len(delivered[B][cb]) = 1

-----------------------------------------------------------------------------
\* C21: validateCommandArgs is all-or-nothing: a batch with at least one
\* rejected argument (null, over-length, dangerous pattern, or emptied by
\* sanitization) comes back with isValid = false and no sanitizedArgs,
\* whatever the other arguments are and wherever the rejected one stands.
C21_AllOrNothing ==
    LET Emptied(a) ==
            /\ a # <<>>
            /\ \A i \in 1..Len(a) : a[i] \in ControlChars \cup WhiteSpace
        Over(a) == StrLen(a) > 2000
        Dangerous(a) ==
            \/ \E i \in 1..(Len(a) - 1) :
                   <<a[i], a[i + 1]>> \in {<<"$", "(">>, <<"&", "&">>, <<"|", "|">>}
            \/ \E i, j \in 1..Len(a) : i < j /\ a[i] = Backtick /\ a[j] = Backtick
            \/ \E i \in 1..Len(a) : a[i] \in {";", "<", ">"}
        Rejected(a) == a = NullArg \/ Over(a) \/ Dangerous(a) \/ Emptied(a)
    IN  (callPhase = "returned" /\ \E i \in 1..Len(callIn) : Rejected(callIn[i]))
            => /\ callOut[1].isValid = FALSE
               /\ callOut[1].sanitizedArgs = <<>>

\* A batch of two whose second argument is rejected and whose first is not
C21_Witness ==
    /\ callPhase = "returned"
    /\ Len(callIn) = 2
    /\ callIn[1] = <<"-o">>
    /\ callIn[2] = <<"a", ";">>
    /\ callOut[1].errors # <<>>

-----------------------------------------------------------------------------
\* C22: validateCommandArgs rejects every batch that has an argument longer
\* than 2000 characters or an argument containing "$(", a backquoted span,
\* "&&", "||", ";", "<" or ">".
C22_LongOrDangerousRejected ==
    LET Carries(a, t) == \E i \in 0..(Len(a) - Len(t)) : SubSeq(a, i + 1, i + Len(t)) = t
        Backquoted(a) ==
            \E i, j \in 1..Len(a) : i < j /\ a[i] = Backtick /\ a[j] = Backtick
        Bad(a) ==
            /\ a # NullArg
            /\ \/ StrLen(a) > 2000
               \/ Backquoted(a)
               \/ \E t \in {<<"$", "(">>, <<"&", "&">>, <<"|", "|">>, <<";">>, <<"<">>, <<">">>} :
                      Carries(a, t)
    IN  (callPhase = "returned" /\ \E i \in 1..Len(callIn) : Bad(callIn[i]))
            => ~callOut[1].isValid

\* A batch whose only fault is a redirection character, and one whose only
\* fault is its length, have been turned down
C22_Witness ==
    /\ callPhase = "returned"
    /\ callIn \in {<<<<"-o">>, <<"a", ">", "b">>>>, <<<<Run2000, "a">>>>}
    /\ ~callOut[1].isValid

-----------------------------------------------------------------------------
\* C23: sanitizeUrl is idempotent: sanitizing the sanitized string gives the
\* sanitized string again.
C23_SanitizeIdempotent ==
    callPhase = "twice" => callOut[2] = callOut[1]

\* A string with several metacharacters has been sanitized twice, and the
\* first pass changed it
C23_Witness ==
    /\ callPhase = "twice"
    /\ callIn = <<"(", "title", ")", ";", "s">>
    /\ callOut[1] = <<"title", "s">>

-----------------------------------------------------------------------------
\* C24: sanitizeUrl never removes a percent-parenthesis placeholder: when
\* the input contains %(title)s, so does the output.
C24_PlaceholderKept ==
    (callPhase \in {"once", "twice"} /\ Includes(callIn, Placeholder))
        => Includes(callOut[1], Placeholder)

-----------------------------------------------------------------------------
\* C25: for every URL on an allow-listed host whose path contains a
\* collection marker segment (/sets/ or /albums/), validateSoundCloudUrl
\* returns the kind playlist or album with isValid = true, whatever the other
\* path segments are.
C25_CollectionUrlsValid ==
    LET s == callIn.segs
        Marked == \E i \in 1..Len(s) :
                     /\ s[i] \in {<<"sets">>, <<"albums">>}
                     /\ (i < Len(s) \/ callIn.slash)
    IN  (callPhase = "returned" /\ callIn.host \in ValidDomains /\ Marked)
            => /\ callOut[1].isValid
               /\ callOut[1].urlType \in {<<"playlist">>, <<"album">>}

-----------------------------------------------------------------------------
\* C26: for every URL on an allow-listed host whose path has exactly one
\* non-empty segment, validateSoundCloudUrl returns the user-profile kind
\* with isValid = false.
C26_OneSegmentIsUserProfile ==
    LET s == callIn.segs
        NonEmpty == {i \in 1..Len(s) : s[i] # <<>>}
    IN  (callPhase = "returned" /\ callIn.host \in ValidDomains /\ Cardinality(NonEmpty) = 1)
            => /\ ~callOut[1].isValid
               /\ callOut[1].urlType = <<"user">>

-----------------------------------------------------------------------------
\* C27: validateAndSanitizePath returns a path only when the resolved
\* absolute form is the home directory or a descendant of it in the
\* directory tree; for every other path, one whose string merely begins with
\* the home directory's string included, it throws and returns nothing.
C27_OnlyHomeDescendantsReturned ==
    LET home == <<<<"Users">>, <<"me">>>>
        Walk(p) ==
            LET RECURSIVE Go(_, _)
                Go(at, rest) ==
                    IF rest = <<>> THEN at
                    ELSE IF Head(rest) = <<".">> THEN Go(at, Tail(rest))
                    ELSE IF Head(rest) = <<"..">>
                    THEN Go(IF at = <<>> THEN <<>> ELSE SubSeq(at, 1, Len(at) - 1), Tail(rest))
                    ELSE Go(Append(at, Head(rest)), Tail(rest))
            IN  Go(<<>>, PathSegments(<<>>, <<>>, p))
        InHomeTree(p) ==
            /\ Len(Walk(p)) >= Len(home)
            /\ SubSeq(Walk(p), 1, Len(home)) = home
    IN  (callPhase = "returned" /\ callOut[1] # <<>>) => InHomeTree(callIn)

-----------------------------------------------------------------------------
(* C28: a failure of the post-completion dispatcher leaves the operation's  *)
(* reported state unchanged: the step in which openInAppleMusic fails       *)
(* changes no stored state and notifies nobody, and the operation stays     *)
(* completed, inactive and with the error it had.                           *)
C28_DispatcherFailureUnreported ==
    [][\A id \in OpIds :
          obs'[id].dispatchFailures > obs[id].dispatchFailures =>
              /\ globalOperations' = globalOperations
              /\ delivered' = delivered
              /\ globalOperations'[id].isCompleted = TRUE
              /\ globalOperations'[id].isActive = FALSE
              /\ globalOperations'[id].error = globalOperations[id].error]_vars

\* The dispatcher failed for an operation that had recorded an error
\* diagnostic and still completed with a file
C28_Witness ==
    \E id \in OpIds :
        /\ obs[id].dispatchFailures = 1
        /\ sup[id].child = "closed"
        /\ globalOperations[id].isCompleted
        /\ globalOperations[id].error # Null

-----------------------------------------------------------------------------
(* C29: on a successful process exit the dispatcher runs its side effects   *)
(* before the store publishes the terminal state: in the step that stores   *)
(* isActive=false, isCompleted=true for an operation whose dispatcher is to *)
(* run (setting on, files listed), the dispatcher has already been called.  *)
C29_DispatchBeforeTerminalState ==
    [][\A id \in OpIds :
          (/\ StateOf(globalOperations', id).isCompleted
           /\ ~StateOf(globalOperations, id).isCompleted
           /\ sup[id].openInAppleMusic
           /\ Len(sup[id].downloadedFiles) > 0) =>
              obs'[id].dispatched # <<>>]_vars

(* C29, amended: the store publishes the terminal state first: whenever     *)
(* the dispatcher is called, the operation's stored state is already        *)
(* isActive=false, isCompleted=true, and the call changes no stored state.  *)
C29_TerminalStateBeforeDispatch ==
    [][\A id \in OpIds :
          obs'[id].dispatched # obs[id].dispatched =>
              /\ id \in DOMAIN globalOperations
              /\ globalOperations[id].isCompleted = TRUE
              /\ globalOperations[id].isActive = FALSE
              /\ globalOperations' = globalOperations]_vars

\* The dispatcher has been called with the files of a closed child
C29_Witness ==
    \E id \in OpIds :
        /\ sup[id].child = "closed"
        /\ obs[id].dispatched = <<sup[id].downloadedFiles>>
        /\ Len(sup[id].downloadedFiles) = 2

-----------------------------------------------------------------------------
C31_FirstShapeOnly ==
    callPhase = "returned" =>
        LET first == CHOOSE s \in callIn.shapes : \A r \in callIn.shapes : s <= r
            listed == \E i \in 1..Len(callIn.files) : <<callIn.files[i]>> = callIn.file
        IN  IF callIn.shapes = {} \/ (first = 5 /\ listed)
            THEN callOut = <<>>
            ELSE /\ Len(callOut) = 1
                 /\ DOMAIN callOut[1] =
                        IF first <= 3 THEN {"progress"}
                        ELSE IF first = 4 THEN {"trackInfo"}
                        ELSE {"downloadedFiles"}

(* C32: whenever a stderr chunk brings a line that has the ERROR: marker and
   not the WARNING: marker, the step that handles the chunk leaves the text
   of that diagnostic in the operation's error field, whatever other lines
   the chunk holds. *)
C32_EveryErrorLineForwarded ==
    [][\A id \in OpIds :
          obs'[id].lastError # obs[id].lastError =>
              StateOf(globalOperations', id).error
                  = <<"Download error", obs'[id].lastError[1]>>]_vars

(* C33 as stated: for every preset, every setting of embedThumbnail,
   addMetadata and openInAppleMusic and both values of isPlaylist, the built
   vector embeds the thumbnail, suppresses the sidecar image and suppresses
   the description, metadata-json, annotations, comments and subtitle files. *)
C33_ThumbnailAlwaysEmbedded ==
    callPhase = "returned" =>
        \A flag \in { <<"--embed-thumbnail">>, <<"--no-write-thumbnail">>,
                      <<"--no-write-description">>, <<"--no-write-info-json">>,
                      <<"--no-write-annotations">>, <<"--no-write-comments">>,
                      <<"--no-write-subs">> } :
            \E i \in 1..Len(callOut) : callOut[i] = flag

(* C33, amended: for every preset, every setting and both values of
   isPlaylist the built vector suppresses the description, metadata-json,
   annotations, comments and subtitle files; it embeds the thumbnail and
   suppresses the sidecar image exactly when embedThumbnail is set, and
   holds neither of the two flags when it is not. *)
C33_SidecarsSuppressed ==
    callPhase = "returned" =>
        /\ \A flag \in { <<"--no-write-description">>, <<"--no-write-info-json">>,
                         <<"--no-write-annotations">>, <<"--no-write-comments">>,
                         <<"--no-write-subs">> } :
               \E i \in 1..Len(callOut) : callOut[i] = flag
        /\ \A flag \in { <<"--embed-thumbnail">>, <<"--no-write-thumbnail">> } :
               callIn.settings.embedThumbnail
                   <=> \E i \in 1..Len(callOut) : callOut[i] = flag

C33_Witness ==
    /\ callPhase = "returned"
    /\ ~callIn.settings.embedThumbnail
    /\ ~callIn.settings.addMetadata
    /\ callIn.settings.quality = "low"
    /\ callIn.isPlaylist
    /\ Len(callOut) > 0

(* C34: in every reachable state the stored state of every operation that
   is completed is inactive. *)
C34_CompletedImpliesInactive ==
    \A id \in OpIds :
        StateOf(globalOperations, id).isCompleted = TRUE
            => StateOf(globalOperations, id).isActive = FALSE

C34_Witness ==
    \E id \in OpIds :
        /\ sup[id].child = "closed"
        /\ StateOf(globalOperations, id).isCompleted = TRUE
        /\ StateOf(globalOperations, id).isActive = FALSE

(* C35: once a terminal handler (close, error or the catch of the setup) has
   set an operation inactive, no later step changes the stored state of
   that operation or delivers anything to its subscribers. *)
C35_NothingAfterTerminal ==
    [][\A id \in OpIds :
          (obs[id].terminalUpdates >= 1 \/ sup[id].pc = "setupFailed") =>
              /\ StateOf(globalOperations', id) = StateOf(globalOperations, id)
              /\ delivered'[id] = delivered[id]]_vars

(* C36: a callback is registered for an id exactly while some subscribe
   call for it has returned a handle that was not called yet: calling a
   handle ends its own subscription, so that no later update of the id
   invokes the callback through it, and it ends no subscription that another
   subscribe call on the same id created; calling it again changes
   nothing. *)
C36_HandleEndsOwnSubscriptionOnly ==
    \A id \in OpIds, cb \in Callbacks :
        cb \in ListenersOf(globalListeners, id)
            <=> \E h \in 1..Len(callOut) :
                    /\ callOut[h].id = id
                    /\ callOut[h].cb = cb
                    /\ ~callOut[h].called

(* C37: the process most recently added under an id is tracked under that
   id (isProcessRunning(id) is true, and the entry is that process) as long
   as it has neither completed nor been killed, whatever became of the
   processes it replaced. *)
C37_LatestProcessStaysTracked ==
    \A p \in 1..Len(procs) :
        (/\ \A q \in (p + 1)..Len(procs) : procs[q].id # procs[p].id
         /\ ~procs[p].killed
         /\ ~procs[p].settled)
            => /\ procs[p].id \in DOMAIN processes
               /\ processes[procs[p].id] = p

(* C38: with canMakeRequest called at non-decreasing times, the calls that
   returned true with timestamps inside one time interval shorter than
   windowMs number at most maxRequests. *)
C38_AtMostMaxRequestsPerWindow ==
    \A i \in 1..Len(granted) :
        Cardinality({k \in 1..Len(granted) :
                        /\ granted[i] <= granted[k]
                        /\ granted[k] - granted[i] < WindowMs}) <= MaxRequests

C38_Witness ==
    /\ Len(granted) > MaxRequests
    /\ Len(requests) = MaxRequests
    /\ \E i \in 1..(Len(granted) - MaxRequests) :
           granted[i + MaxRequests] - granted[i] = WindowMs

=============================================================================
